---- MODULE Spec2Model ----
(***************************************************************************)
(* BLE advertisement payload filtering (APCF): the host-side accounting    *)
(* table, the condition encoders, the completion router and the identity   *)
(* record side effects of system/stack/btm/btm_ble_adv_filter.cc.          *)
(***************************************************************************)
EXTENDS Integers, Sequences, FiniteSets, TLC

(* ------------------------------------------------------------------ *)
(* Bounds of the model                                                 *)
(* ------------------------------------------------------------------ *)
\* largest max_filter the controller reports in the model
MaxFilter == 2
\* the counters of an entry are followed while their sum is at most this
MaxCount == 3
\* the commands that may wait for their reply at once in the two-command scenario
MaxOutstanding == 2

(* ------------------------------------------------------------------ *)
(* Values of the headers (btm_ble_api_types.h, hcidefs.h)              *)
(* ------------------------------------------------------------------ *)
BTM_BLE_SCAN_COND_ADD == 1
BTM_BLE_SCAN_COND_DELETE == 2
BTM_BLE_SCAN_COND_CLEAR == 3

BTM_BLE_PF_ADDR_FILTER == 0
BTM_BLE_PF_SRVC_DATA == 1
BTM_BLE_PF_SRVC_UUID == 2
BTM_BLE_PF_SRVC_SOL_UUID == 3
BTM_BLE_PF_LOCAL_NAME == 4
BTM_BLE_PF_MANU_DATA == 5
BTM_BLE_PF_SRVC_DATA_PATTERN == 6
BTM_BLE_PF_TYPE_ALL == 7
BTM_BLE_PF_TYPE_MAX == 8

BTM_BLE_META_PF_ENABLE == 0
BTM_BLE_META_PF_FEAT_SEL == 1
BTM_BLE_META_PF_ADDR == 2
BTM_BLE_META_PF_UUID == 3
BTM_BLE_META_PF_SOL_UUID == 4
BTM_BLE_META_PF_LOCAL_NAME == 5
BTM_BLE_META_PF_MANU_DATA == 6
BTM_BLE_META_PF_SRVC_DATA == 7
BTM_BLE_META_PF_ALL == 8

BTM_BLE_PF_ENABLE == 1
BTM_BLE_PF_CONFIG == 2
BTM_BLE_PF_LOGIC_OR == 0
BTM_BLE_PF_STR_LEN_MAX == 29
HCI_SUCCESS == 0
BTM_VSC_CHIP_CAPABILITY_L_VERSION == 55
BTM_VSC_CHIP_CAPABILITY_M_VERSION == 95

BTM_BLE_INVALID_COUNTER == 255
BTM_BLE_ADV_FILT_META_HDR_LENGTH == 3
BTM_BLE_ADV_FILT_FEAT_SELN_LEN == 13
BTM_BLE_ADV_FILT_TRACK_NUM == 2
BTM_BLE_PF_SELECT_NONE == 0
BTM_BLE_PF_FEAT_SEL_LEN == 18
BTM_BLE_PCF_ENABLE_LEN == 2
BTM_BLE_META_ADDR_LEN == 7

(* ------------------------------------------------------------------ *)
(* Addresses, pointers, callbacks                                      *)
(* ------------------------------------------------------------------ *)
\* RawAddress::kEmpty, the all-zero address
EmptyAddr == "00:00:00:00:00:00"
\* the non-empty addresses of the model
Addr == {"a1", "a2", "a3"}
\* a null tBLE_BD_ADDR pointer
NullPtr == "NULL"
\* result of a search that found no counter (a NULL tBTM_BLE_PF_COUNT pointer)
NoSlot == -1

\* a default-constructed (null) base::Callback
NullCb == "null"
\* no direct call of btm_ble_cs_update_pf_counter was made in the last step
NoRet == "none"
\* base::DoNothing()
DoNothing == "DoNothing"

CondTypes == BTM_BLE_PF_ADDR_FILTER .. (BTM_BLE_PF_TYPE_MAX - 1)

\* tBTM_BLE_PF_COUNT after memset(.., 0, ..)
ZeroCount == [in_use |-> FALSE, bd_addr |-> EmptyAddr,
              pf_counter |-> [t \in CondTypes |-> 0]]

(* ------------------------------------------------------------------ *)
(* State                                                               *)
(* ------------------------------------------------------------------ *)
VARIABLES
  cmn_ble_vsc_cb,       \* capability record: filter_support, max_filter, version_supported
  p_addr_filter_count,  \* btm_ble_adv_filt_cb.p_addr_filter_count: index -> tBTM_BLE_PF_COUNT
  cur_filter_target,    \* btm_ble_adv_filt_cb.cur_filter_target.bda
  remove_me_later_map,  \* filter index -> address of the temporary device record
  dev_rec,              \* addresses with a device record (security manager)
  bonded,               \* addresses of bonded devices
  connected,            \* addresses with a live link (their record cannot be deleted)
  pid_keys,             \* addresses with an identity resolving key installed
  cmd_queue,            \* commands sent to the controller, waiting for their reply
  cbRun,                \* the callbacks the last step invoked, in order
  crashed,              \* a null callback was run
  last,                 \* the operation the last step performed
  addr_acked,           \* history: addresses whose address-filter Add was acknowledged
  delCalls,             \* the BTM_SecDeleteDevice calls the last step made, in order
  temp_recs,            \* history: records btm_sec_alloc_dev made here, not deleted here since
  update_ret            \* what the last direct call of btm_ble_cs_update_pf_counter returned

vars == <<cmn_ble_vsc_cb, p_addr_filter_count, cur_filter_target,
          remove_me_later_map, dev_rec, bonded, connected, pid_keys,
          cmd_queue, cbRun, crashed, last, addr_acked, delCalls, temp_recs,
          update_ret>>

\* variant: max_filter is not looked at
is_filtering_supported_SupportOnly(vsc) == vsc.filter_support # 0

(* ------------------------------------------------------------------ *)
(* Capability registry                                                 *)
(* ------------------------------------------------------------------ *)
is_filtering_supported(vsc) ==
  vsc.filter_support # 0 /\ vsc.max_filter # 0

(* ------------------------------------------------------------------ *)
(* Filter-slot accounting table                                        *)
(* ------------------------------------------------------------------ *)
MinOf(S) == CHOOSE x \in S : \A y \in S : x <= y

btm_ble_ocf_to_condtype(ocf) ==
  CASE ocf = BTM_BLE_META_PF_FEAT_SEL -> BTM_BLE_META_PF_FEAT_SEL
    [] ocf = BTM_BLE_META_PF_ADDR -> BTM_BLE_PF_ADDR_FILTER
    [] ocf = BTM_BLE_META_PF_UUID -> BTM_BLE_PF_SRVC_UUID
    [] ocf = BTM_BLE_META_PF_SOL_UUID -> BTM_BLE_PF_SRVC_SOL_UUID
    [] ocf = BTM_BLE_META_PF_LOCAL_NAME -> BTM_BLE_PF_LOCAL_NAME
    [] ocf = BTM_BLE_META_PF_MANU_DATA -> BTM_BLE_PF_MANU_DATA
    [] ocf = BTM_BLE_META_PF_SRVC_DATA -> BTM_BLE_PF_SRVC_DATA_PATTERN
    [] ocf = BTM_BLE_META_PF_ALL -> BTM_BLE_PF_TYPE_ALL
    [] OTHER -> BTM_BLE_PF_TYPE_MAX

\* index of the counter of p_le_bda: 0 for a null pointer, else the first
\* in-use entry among 1..max_filter bound to the address, else NoSlot
btm_ble_find_addr_filter_counter(tab, mf, p_le_bda) ==
  IF p_le_bda = NullPtr THEN 0
  ELSE LET hit == {i \in 1..mf : tab[i].in_use /\ tab[i].bd_addr = p_le_bda}
       IN  IF hit = {} THEN NoSlot ELSE MinOf(hit)

\* the first entry among 1..max_filter whose address is empty becomes bd_addr's
btm_ble_alloc_addr_filter_counter(tab, mf, bd_addr) ==
  LET free == {i \in 1..mf : tab[i].bd_addr = EmptyAddr}
  IN  IF free = {} THEN [tab |-> tab, slot |-> NoSlot]
      ELSE LET i == MinOf(free)
           IN  [tab |-> [tab EXCEPT ![i].bd_addr = bd_addr, ![i].in_use = TRUE],
                slot |-> i]

\* variant: with an address too, every matching entry is zeroed
DeallocHits_AllMatches(tab, mf, p_bd_addr) ==
  {i \in 1..mf : tab[i].in_use /\
                   (p_bd_addr = NullPtr \/ tab[i].bd_addr = p_bd_addr)}

\* variant: an entry matches only when an address is given
DeallocHits_AddrOnly(tab, mf, p_bd_addr) ==
  {i \in 1..mf : tab[i].in_use /\ p_bd_addr # NullPtr /\ tab[i].bd_addr = p_bd_addr}

\* the entries the loop of btm_ble_dealloc_addr_filter_counter zeroes
DeallocHits(tab, mf, p_bd_addr) ==
  LET match == {i \in 1..mf : tab[i].in_use /\
                   (p_bd_addr = NullPtr \/ tab[i].bd_addr = p_bd_addr)}
  IN  IF p_bd_addr # NullPtr /\ match # {} THEN {MinOf(match)} ELSE match

btm_ble_dealloc_addr_filter_counter(tab, mf, p_bd_addr, filter_type) ==
  LET hits == DeallocHits(tab, mf, p_bd_addr)
      wipe0 == filter_type = BTM_BLE_PF_TYPE_ALL /\ p_bd_addr = NullPtr
  IN  [tab |-> [i \in DOMAIN tab |->
                  IF (i = 0 /\ wipe0) \/ i \in hits THEN ZeroCount ELSE tab[i]],
       found |-> hits # {}]

\* the condition types that are always accounted in the generic entry
AlwaysGeneric(cond_type) ==
  cond_type \in {BTM_BLE_PF_ADDR_FILTER, BTM_BLE_PF_MANU_DATA,
                 BTM_BLE_PF_LOCAL_NAME, BTM_BLE_PF_SRVC_DATA_PATTERN}

\* variant: only Clear deallocates
IsDeallocCase_ClearOnly(action, cond_type) ==
  /\ action = BTM_BLE_SCAN_COND_CLEAR
  /\ cond_type \in {BTM_BLE_PF_TYPE_ALL, BTM_BLE_PF_ADDR_FILTER}

\* whether the found entry is deallocated instead of counted
IsDeallocCase(action, cond_type) ==
  \/ cond_type = BTM_BLE_PF_TYPE_ALL /\ action = BTM_BLE_SCAN_COND_CLEAR
  \/ cond_type = BTM_BLE_PF_ADDR_FILTER /\
       action \in {BTM_BLE_SCAN_COND_DELETE, BTM_BLE_SCAN_COND_CLEAR}

\* variant: the counter is incremented whatever num_available is
CounterStep_Always(c, num_available) == (c + 1) % 256

\* the counter after "if (num_available > 0) p_counter[cond_type] += 1" (uint8_t)
CounterStep(c, num_available) ==
  IF num_available > 0 THEN (c + 1) % 256 ELSE c

\* variant: the condition type is looked at after the entry was found or allocated
btm_ble_cs_update_pf_counter_LateCheck(tab, mf, action, cond_type, p_bd_addr, num_available) ==
  LET bda == IF AlwaysGeneric(cond_type) THEN NullPtr ELSE p_bd_addr
      f == btm_ble_find_addr_filter_counter(tab, mf, bda)
      al == IF f = NoSlot /\ action = BTM_BLE_SCAN_COND_ADD
            THEN btm_ble_alloc_addr_filter_counter(tab, mf, bda)
            ELSE [tab |-> tab, slot |-> f]
      t1 == al.tab
      s == al.slot
  IN  IF s = NoSlot \/ cond_type > BTM_BLE_PF_TYPE_ALL
      THEN [tab |-> t1, ret |-> BTM_BLE_INVALID_COUNTER]
      ELSE IF IsDeallocCase(action, cond_type)
      THEN [tab |-> btm_ble_dealloc_addr_filter_counter(t1, mf, bda, cond_type).tab,
            ret |-> BTM_BLE_INVALID_COUNTER]
      ELSE IF cond_type # BTM_BLE_PF_TYPE_ALL
      THEN LET c == CounterStep(t1[s].pf_counter[cond_type], num_available)
           IN  [tab |-> [t1 EXCEPT ![s].pf_counter[cond_type] = c], ret |-> c]
      ELSE [tab |-> t1, ret |-> BTM_BLE_INVALID_COUNTER]

\* [tab |-> the table afterwards, ret |-> the returned counter]
btm_ble_cs_update_pf_counter(tab, mf, action, cond_type, p_bd_addr, num_available) ==
  IF cond_type > BTM_BLE_PF_TYPE_ALL
  THEN [tab |-> tab, ret |-> BTM_BLE_INVALID_COUNTER]
  ELSE
    LET bda == IF AlwaysGeneric(cond_type) THEN NullPtr ELSE p_bd_addr
        f == btm_ble_find_addr_filter_counter(tab, mf, bda)
        al == IF f = NoSlot /\ action = BTM_BLE_SCAN_COND_ADD
              THEN btm_ble_alloc_addr_filter_counter(tab, mf, bda)
              ELSE [tab |-> tab, slot |-> f]
        t1 == al.tab
        s == al.slot
    IN  IF s = NoSlot THEN [tab |-> t1, ret |-> BTM_BLE_INVALID_COUNTER]
        ELSE IF IsDeallocCase(action, cond_type)
        THEN [tab |-> btm_ble_dealloc_addr_filter_counter(t1, mf, bda, cond_type).tab,
              ret |-> BTM_BLE_INVALID_COUNTER]
        ELSE IF cond_type # BTM_BLE_PF_TYPE_ALL
        THEN LET c == CounterStep(t1[s].pf_counter[cond_type], num_available)
             IN  [tab |-> [t1 EXCEPT ![s].pf_counter[cond_type] = c], ret |-> c]
        ELSE [tab |-> t1, ret |-> BTM_BLE_INVALID_COUNTER]

(* ------------------------------------------------------------------ *)
(* Byte streams                                                        *)
(* ------------------------------------------------------------------ *)
UINT8_TO_STREAM(x) == <<x % 256>>
UINT16_TO_STREAM(x) == <<x % 256, (x \div 256) % 256>>
UINT32_TO_STREAM(x) ==
  <<x % 256, (x \div 256) % 256, (x \div 65536) % 256, (x \div 16777216) % 256>>
\* the first n bytes of v (ARRAY_TO_STREAM(p, v.data(), n))
ARRAY_TO_STREAM(v, n) == SubSeq(v, 1, n)
Reverse(v) == [i \in 1..Len(v) |-> v[Len(v) + 1 - i]]
MinNat(a, b) == IF a <= b THEN a ELSE b
Repeat(x, n) == [i \in 1..n |-> x]
\* a byte read past the end of a vector: its value is indeterminate
UndefByte == "indeterminate"
\* ARRAY_TO_STREAM(p, data_mask.data(), size): size bytes starting at the mask
MaskRead(data_mask, size) ==
  [i \in 1..size |-> IF i <= Len(data_mask) THEN data_mask[i] ELSE UndefByte]

(* ------------------------------------------------------------------ *)
(* Collaborators: the UUID value type, address resolution, the         *)
(* security/device manager                                             *)
(* ------------------------------------------------------------------ *)
\* a Uuid is its 16 bytes, most significant first
kBaseUuid == <<0, 0, 0, 0, 0, 0, 16, 0, 128, 0, 0, 128, 95, 155, 52, 251>>
kEmptyUuid == Repeat(0, 16)
UuidIsEmpty(u) == u = kEmptyUuid
GetShortestRepresentationSize(u) ==
  IF SubSeq(u, 5, 16) # SubSeq(kBaseUuid, 5, 16) THEN 16
  ELSE IF u[1] = 0 /\ u[2] = 0 THEN 2 ELSE 4
As16Bit(u) == u[3] * 256 + u[4]
As32Bit(u) == ((u[1] * 256 + u[2]) * 256 + u[3]) * 256 + u[4]
To128BitLE(u) == Reverse(u)

\* an address is the six-byte string the controller compares; the model
\* writes it to the stream as one symbol per address
AddrByte(a) == CASE a = "a1" -> 161 [] a = "a2" -> 162 [] a = "a3" -> 163 [] OTHER -> 0
BDADDR_TO_STREAM(a) == Repeat(AddrByte(a), 6)

\* btm_random_pseudo_to_identity_addr: a resolvable address of a device whose
\* record holds an identity address is replaced by that identity address
btm_random_pseudo_to_identity_addr(a, devs) ==
  IF a = "a1" /\ "a1" \in devs /\ "a2" \in devs THEN "a2" ELSE a

btm_sec_is_a_bonded_dev(st, a) == a \in st.bonded
btm_find_dev(st, a) == a \in st.dev
btm_sec_alloc_dev(st, a) == [st EXCEPT !.dev = @ \cup {a}, !.temp = @ \cup {a}]
BTM_SecAddBleKey(st, a) == [st EXCEPT !.pid = @ \cup {a}]
\* [st, ok]: a device with a live link keeps its record and the call fails;
\* the call is noted with what was true of its target when it was made
BTM_SecDeleteDevice(st, a) ==
  LET noted == [st EXCEPT !.del = Append(@, [addr |-> a,
                                             bonded |-> a \in st.bonded,
                                             temp |-> a \in st.temp])]
  IN  IF a \in st.conn THEN [st |-> noted, ok |-> FALSE]
      ELSE [st |-> [noted EXCEPT !.dev = @ \ {a}, !.bonded = @ \ {a},
                                 !.pid = @ \ {a}, !.temp = @ \ {a}],
            ok |-> TRUE]

(* ------------------------------------------------------------------ *)
(* The program state a handler works on                                *)
(* ------------------------------------------------------------------ *)
Here ==
  [vsc |-> cmn_ble_vsc_cb, tab |-> p_addr_filter_count, cft |-> cur_filter_target,
   map |-> remove_me_later_map, dev |-> dev_rec, bonded |-> bonded,
   conn |-> connected, pid |-> pid_keys, q |-> cmd_queue, run |-> <<>>,
   crash |-> crashed, del |-> <<>>, temp |-> temp_recs, ret |-> NoRet]

\* the state after a handler: st becomes the variables' next values
Becomes(st, op) ==
  /\ cmn_ble_vsc_cb' = st.vsc
  /\ p_addr_filter_count' = st.tab
  /\ cur_filter_target' = st.cft
  /\ remove_me_later_map' = st.map
  /\ dev_rec' = st.dev
  /\ bonded' = st.bonded
  /\ connected' = st.conn
  /\ pid_keys' = st.pid
  /\ cmd_queue' = st.q
  /\ cbRun' = st.run
  /\ crashed' = st.crash
  /\ delCalls' = st.del
  /\ temp_recs' = st.temp
  /\ update_ret' = st.ret
  /\ last' = op

\* cb.Run(args): running a null callback ends the process
RunCb(st, cb, args) ==
  IF cb = NullCb THEN [st EXCEPT !.crash = TRUE]
  ELSE [st EXCEPT !.run = Append(@, [cb |-> cb, args |-> args])]

\* btu_hcif_send_cmd_with_cb(.., param, len, Bind(fn, ocf, cb))
btu_hcif_send_cmd_with_cb(st, param, fn, ocf, cb) ==
  [st EXCEPT !.q = Append(@, [fn |-> fn, ocf |-> ocf, cb |-> cb, param |-> param])]

\* variant: a send leaves an address in the pending target
ClearTarget_LeavesAddress(st) == [st EXCEPT !.cft = "a1"]

\* memset(&btm_ble_adv_filt_cb.cur_filter_target, 0, sizeof(tBLE_BD_ADDR))
ClearTarget(st) == [st EXCEPT !.cft = EmptyAddr]

(* ------------------------------------------------------------------ *)
(* Condition encoders                                                  *)
(* ------------------------------------------------------------------ *)
MetaHdr(ocf, action, filt_index) ==
  UINT8_TO_STREAM(ocf) \o UINT8_TO_STREAM(action) \o UINT8_TO_STREAM(filt_index)

BTM_LE_PF_local_name(st, action, filt_index, name, cb) ==
  LET size == MinNat(Len(name), BTM_BLE_PF_STR_LEN_MAX)
      body == IF action # BTM_BLE_SCAN_COND_CLEAR
              THEN ARRAY_TO_STREAM(name, size) ELSE <<>>
      param == MetaHdr(BTM_BLE_META_PF_LOCAL_NAME, action, filt_index) \o body
  IN  ClearTarget(btu_hcif_send_cmd_with_cb(st, param, "btm_flt_update_cb",
                                            BTM_BLE_META_PF_LOCAL_NAME, cb))

\* no command: the generic counter of the service-data type is updated at once
BTM_LE_PF_srvc_data(st, action, filt_index) ==
  LET num_avail == IF action = BTM_BLE_SCAN_COND_ADD THEN 0 ELSE 1
  IN  [st EXCEPT !.tab = btm_ble_cs_update_pf_counter(
                           st.tab, st.vsc.max_filter, action,
                           BTM_BLE_PF_SRVC_DATA, NullPtr, num_avail).tab]

\* variant: the data and the mask are sent whenever there is data
BTM_LE_PF_manu_data_DataOnly(st, action, filt_index, company_id, company_id_mask, data, data_mask, cb) ==
  LET size == MinNat(Len(data), BTM_BLE_PF_STR_LEN_MAX - 2)
      both == size > 0
      maskBytes == MaskRead(data_mask, size)
      body == IF action # BTM_BLE_SCAN_COND_CLEAR
              THEN UINT16_TO_STREAM(company_id)
                   \o (IF both THEN ARRAY_TO_STREAM(data, size) ELSE <<>>)
                   \o (IF company_id_mask # 0 THEN UINT16_TO_STREAM(company_id_mask)
                                              ELSE UINT16_TO_STREAM(65535))
                   \o (IF both THEN maskBytes ELSE <<>>)
              ELSE <<>>
      param == MetaHdr(BTM_BLE_META_PF_MANU_DATA, action, filt_index) \o body
  IN  ClearTarget(btu_hcif_send_cmd_with_cb(st, param, "btm_flt_update_cb",
                                            BTM_BLE_META_PF_MANU_DATA, cb))

BTM_LE_PF_manu_data(st, action, filt_index, company_id, company_id_mask, data, data_mask, cb) ==
  LET size == MinNat(Len(data), BTM_BLE_PF_STR_LEN_MAX - 2)
      both == size > 0 /\ Len(data_mask) # 0
      maskBytes == MaskRead(data_mask, size)
      body == IF action # BTM_BLE_SCAN_COND_CLEAR
              THEN UINT16_TO_STREAM(company_id)
                   \o (IF both THEN ARRAY_TO_STREAM(data, size) ELSE <<>>)
                   \o (IF company_id_mask # 0 THEN UINT16_TO_STREAM(company_id_mask)
                                              ELSE UINT16_TO_STREAM(65535))
                   \o (IF both THEN maskBytes ELSE <<>>)
              ELSE <<>>
      param == MetaHdr(BTM_BLE_META_PF_MANU_DATA, action, filt_index) \o body
  IN  ClearTarget(btu_hcif_send_cmd_with_cb(st, param, "btm_flt_update_cb",
                                            BTM_BLE_META_PF_MANU_DATA, cb))

BTM_LE_PF_srvc_data_pattern(st, action, filt_index, data, data_mask, cb) ==
  LET size == MinNat(Len(data), BTM_BLE_PF_STR_LEN_MAX - 2)
      maskBytes == MaskRead(data_mask, size)
      body == IF action # BTM_BLE_SCAN_COND_CLEAR /\ size > 0
              THEN ARRAY_TO_STREAM(data, size) \o maskBytes ELSE <<>>
      param == MetaHdr(BTM_BLE_META_PF_SRVC_DATA, action, filt_index) \o body
  IN  ClearTarget(btu_hcif_send_cmd_with_cb(st, param, "btm_flt_update_cb",
                                            BTM_BLE_META_PF_SRVC_DATA, cb))

\* variant: the address sent stays in the pending target
BTM_LE_PF_addr_filter_KeepsTarget(st, action, filt_index, addr, cb) ==
  LET bda == btm_random_pseudo_to_identity_addr(addr, st.dev)
      body == IF action # BTM_BLE_SCAN_COND_CLEAR
              THEN BDADDR_TO_STREAM(bda) \o UINT8_TO_STREAM(2)
              ELSE Repeat(0, BTM_BLE_META_ADDR_LEN)
      param == MetaHdr(BTM_BLE_META_PF_ADDR, action, filt_index) \o body
  IN  [btu_hcif_send_cmd_with_cb(st, param, "btm_flt_update_cb",
                                 BTM_BLE_META_PF_ADDR, cb) EXCEPT !.cft = bda]

\* len is the constant header + address length whatever the action: on Clear
\* the seven bytes after the header are the zeroes of the memset
BTM_LE_PF_addr_filter(st, action, filt_index, addr, cb) ==
  LET bda == btm_random_pseudo_to_identity_addr(addr, st.dev)
      body == IF action # BTM_BLE_SCAN_COND_CLEAR
              THEN BDADDR_TO_STREAM(bda) \o UINT8_TO_STREAM(2)
              ELSE Repeat(0, BTM_BLE_META_ADDR_LEN)
      param == MetaHdr(BTM_BLE_META_PF_ADDR, action, filt_index) \o body
  IN  ClearTarget(btu_hcif_send_cmd_with_cb(st, param, "btm_flt_update_cb",
                                            BTM_BLE_META_PF_ADDR, cb))

UuidBytes(u, uuid_len) ==
  CASE uuid_len = 2 -> UINT16_TO_STREAM(As16Bit(u))
    [] uuid_len = 4 -> UINT32_TO_STREAM(As32Bit(u))
    [] uuid_len = 16 -> To128BitLE(u)
    [] OTHER -> <<>>

\* variant: the mask is encoded as given, empty or not
BTM_LE_PF_uuid_filter_MaskAsGiven(st, action, filt_index, filter_type, uuid, uuid_mask, cb) ==
  LET evt_type == IF filter_type = BTM_BLE_PF_SRVC_UUID
                  THEN BTM_BLE_META_PF_UUID ELSE BTM_BLE_META_PF_SOL_UUID
      uuid_len == GetShortestRepresentationSize(uuid)
      legal == uuid_len \in {2, 4, 16}
      body == IF action # BTM_BLE_SCAN_COND_CLEAR
              THEN UuidBytes(uuid, uuid_len) \o UuidBytes(uuid_mask, uuid_len)
              ELSE <<>>
      param == MetaHdr(evt_type, action, filt_index) \o body
  IN  IF action # BTM_BLE_SCAN_COND_CLEAR /\ ~legal
      THEN RunCb(st, cb, <<0, BTM_BLE_PF_CONFIG, "BTM_ILLEGAL_VALUE">>)
      ELSE ClearTarget(btu_hcif_send_cmd_with_cb(st, param, "btm_flt_update_cb",
                                                 evt_type, cb))

BTM_LE_PF_uuid_filter(st, action, filt_index, filter_type, uuid, uuid_mask, cb) ==
  LET evt_type == IF filter_type = BTM_BLE_PF_SRVC_UUID
                  THEN BTM_BLE_META_PF_UUID ELSE BTM_BLE_META_PF_SOL_UUID
      uuid_len == GetShortestRepresentationSize(uuid)
      legal == uuid_len \in {2, 4, 16}
      body == IF action # BTM_BLE_SCAN_COND_CLEAR
              THEN UuidBytes(uuid, uuid_len)
                   \o (IF ~UuidIsEmpty(uuid_mask) THEN UuidBytes(uuid_mask, uuid_len)
                       ELSE Repeat(255, uuid_len))
              ELSE <<>>
      param == MetaHdr(evt_type, action, filt_index) \o body
  IN  IF action # BTM_BLE_SCAN_COND_CLEAR /\ ~legal
      THEN RunCb(st, cb, <<0, BTM_BLE_PF_CONFIG, "BTM_ILLEGAL_VALUE">>)
      ELSE ClearTarget(btu_hcif_send_cmd_with_cb(st, param, "btm_flt_update_cb",
                                                 evt_type, cb))

(* ------------------------------------------------------------------ *)
(* Completion router                                                   *)
(* ------------------------------------------------------------------ *)
BtmStatus(status) == IF status = 0 THEN "BTM_SUCCESS" ELSE "BTM_ERR_PROCESSING"

\* the pointer the router passes to the counter update
TargetPtr(cft) == IF cft = EmptyAddr THEN NullPtr ELSE cft

\* the table after the router's counter update for a successful reply
RouterUpdate(st, expected_ocf, evt) ==
  btm_ble_cs_update_pf_counter(st.tab, st.vsc.max_filter, evt.action,
                               btm_ble_ocf_to_condtype(expected_ocf),
                               TargetPtr(st.cft), evt.num_avail)

\* variant: the echoed subcode is not compared
RouterDrops_LengthOnly(expected_ocf, evt) == evt.len # 4

\* whether the router drops the event without running the continuation
RouterDrops(expected_ocf, evt) ==
  evt.len # 4 \/ expected_ocf # evt.op_subcode

\* variant: feature-selection replies are not told apart from the others
btm_flt_update_cb_NoFeatSel(st, expected_ocf, cb, evt) ==
  IF RouterDrops(expected_ocf, evt) THEN st
  ELSE IF evt.status = HCI_SUCCESS
  THEN RunCb([st EXCEPT !.tab = RouterUpdate(st, expected_ocf, evt).tab], cb,
             <<evt.num_avail, evt.action, BtmStatus(evt.status)>>)
  ELSE RunCb(st, cb, <<evt.num_avail, evt.action, BtmStatus(evt.status)>>)

\* variant: the counter is updated whatever the status of the reply
btm_flt_update_cb_AnyStatus(st, expected_ocf, cb, evt) ==
  IF RouterDrops(expected_ocf, evt) THEN st
  ELSE IF evt.op_subcode = BTM_BLE_META_PF_FEAT_SEL
  THEN RunCb(st, cb, <<evt.num_avail, evt.action, BtmStatus(evt.status)>>)
  ELSE RunCb([st EXCEPT !.tab = RouterUpdate(st, expected_ocf, evt).tab], cb,
             <<evt.num_avail, evt.action, BtmStatus(evt.status)>>)

\* variant: the continuation gets the counter the update returned
btm_flt_update_cb_RetCounter(st, expected_ocf, cb, evt) ==
  IF RouterDrops(expected_ocf, evt) THEN st
  ELSE IF evt.op_subcode = BTM_BLE_META_PF_FEAT_SEL
  THEN RunCb(st, cb, <<evt.num_avail, evt.action, BtmStatus(evt.status)>>)
  ELSE LET up == RouterUpdate(st, expected_ocf, evt)
       IN  IF evt.status = HCI_SUCCESS
           THEN RunCb([st EXCEPT !.tab = up.tab], cb,
                      <<up.ret, evt.action, BtmStatus(evt.status)>>)
           ELSE RunCb(st, cb, <<BTM_BLE_INVALID_COUNTER, evt.action,
                                BtmStatus(evt.status)>>)

btm_flt_update_cb(st, expected_ocf, cb, evt) ==
  IF RouterDrops(expected_ocf, evt) THEN st
  ELSE IF evt.op_subcode = BTM_BLE_META_PF_FEAT_SEL
  THEN RunCb(st, cb, <<evt.num_avail, evt.action, BtmStatus(evt.status)>>)
  ELSE LET st1 == IF evt.status = HCI_SUCCESS
                  THEN [st EXCEPT !.tab = RouterUpdate(st, expected_ocf, evt).tab]
                  ELSE st
       IN  RunCb(st1, cb, <<evt.num_avail, evt.action, BtmStatus(evt.status)>>)

\* variant: the length of the reply is not looked at
enable_cmpl_cback_AnyLength(st, p_stat_cback, evt) ==
  IF evt.op_subcode # BTM_BLE_META_PF_ENABLE THEN st
  ELSE RunCb(st, p_stat_cback, <<evt.action, BtmStatus(evt.status)>>)

enable_cmpl_cback(st, p_stat_cback, evt) ==
  IF evt.len # 3 \/ evt.op_subcode # BTM_BLE_META_PF_ENABLE THEN st
  ELSE RunCb(st, p_stat_cback, <<evt.action, BtmStatus(evt.status)>>)

(* ------------------------------------------------------------------ *)
(* Public operations                                                   *)
(* ------------------------------------------------------------------ *)
is_empty_128bit(data) == \A i \in 1..16 : data[i] = 0

MapErase(m, k) == [x \in DOMAIN m \ {k} |-> m[x]]
\* unordered_map::emplace: an existing entry is kept
MapEmplace(m, k, v) ==
  [x \in DOMAIN m \cup {k} |-> IF x \in DOMAIN m THEN m[x] ELSE v]

\* the identity-record part of an address command with a non-empty IRK
\* [st, returned]: returned when BTM_LE_PF_set returns from inside the loop
SetIrkRecord(st, filt_index, cmd) ==
  LET has == filt_index \in DOMAIN st.map
      old == st.map[filt_index]
      del == IF has /\ ~btm_sec_is_a_bonded_dev(st, old)
             THEN BTM_SecDeleteDevice(st, old) ELSE [st |-> st, ok |-> TRUE]
      st1 == IF has THEN [del.st EXCEPT !.map = MapErase(@, filt_index)] ELSE st
  IN  IF ~del.ok THEN [st |-> del.st, returned |-> TRUE]
      ELSE IF btm_find_dev(st1, cmd.address) THEN [st |-> st1, returned |-> TRUE]
      ELSE [st |-> BTM_SecAddBleKey(
                     [btm_sec_alloc_dev(st1, cmd.address)
                        EXCEPT !.map = MapEmplace(@, filt_index, cmd.address)],
                     cmd.address),
            returned |-> FALSE]

\* variant: the caller's callback is bound to every command of the call
SetCommand_BindsCaller(st, filt_index, cmd) ==
  LET action == BTM_BLE_SCAN_COND_ADD
      go(s) == [st |-> s, returned |-> FALSE]
  IN  IF Len(cmd.data) # Len(cmd.data_mask) /\ Len(cmd.data) # 0 /\ Len(cmd.data_mask) # 0
      THEN go(st)
      ELSE CASE cmd.type = BTM_BLE_PF_ADDR_FILTER ->
                  LET st1 == BTM_LE_PF_addr_filter(st, action, filt_index,
                                                   cmd.address, "cb_set")
                  IN  IF ~is_empty_128bit(cmd.irk)
                      THEN SetIrkRecord(st1, filt_index, cmd) ELSE go(st1)
             [] cmd.type = BTM_BLE_PF_SRVC_DATA ->
                  go(BTM_LE_PF_srvc_data(st, action, filt_index))
             [] cmd.type \in {BTM_BLE_PF_SRVC_UUID, BTM_BLE_PF_SRVC_SOL_UUID} ->
                  go(BTM_LE_PF_uuid_filter(st, action, filt_index, cmd.type,
                                           cmd.uuid, cmd.uuid_mask, "cb_set"))
             [] cmd.type = BTM_BLE_PF_LOCAL_NAME ->
                  go(BTM_LE_PF_local_name(st, action, filt_index, cmd.name, "cb_set"))
             [] cmd.type = BTM_BLE_PF_MANU_DATA ->
                  go(BTM_LE_PF_manu_data(st, action, filt_index, cmd.company,
                                         cmd.company_mask, cmd.data, cmd.data_mask,
                                         "cb_set"))
             [] cmd.type = BTM_BLE_PF_SRVC_DATA_PATTERN ->
                  go(BTM_LE_PF_srvc_data_pattern(st, action, filt_index, cmd.data,
                                                 cmd.data_mask, "cb_set"))
             [] OTHER -> go(st)

\* one iteration of the loop of BTM_LE_PF_set
SetCommand(st, filt_index, cmd) ==
  LET action == BTM_BLE_SCAN_COND_ADD
      go(s) == [st |-> s, returned |-> FALSE]
  IN  IF Len(cmd.data) # Len(cmd.data_mask) /\ Len(cmd.data) # 0 /\ Len(cmd.data_mask) # 0
      THEN go(st)
      ELSE CASE cmd.type = BTM_BLE_PF_ADDR_FILTER ->
                  LET st1 == BTM_LE_PF_addr_filter(st, action, filt_index,
                                                   cmd.address, DoNothing)
                  IN  IF ~is_empty_128bit(cmd.irk)
                      THEN SetIrkRecord(st1, filt_index, cmd) ELSE go(st1)
             [] cmd.type = BTM_BLE_PF_SRVC_DATA ->
                  go(BTM_LE_PF_srvc_data(st, action, filt_index))
             [] cmd.type \in {BTM_BLE_PF_SRVC_UUID, BTM_BLE_PF_SRVC_SOL_UUID} ->
                  go(BTM_LE_PF_uuid_filter(st, action, filt_index, cmd.type,
                                           cmd.uuid, cmd.uuid_mask, DoNothing))
             [] cmd.type = BTM_BLE_PF_LOCAL_NAME ->
                  go(BTM_LE_PF_local_name(st, action, filt_index, cmd.name, DoNothing))
             [] cmd.type = BTM_BLE_PF_MANU_DATA ->
                  go(BTM_LE_PF_manu_data(st, action, filt_index, cmd.company,
                                         cmd.company_mask, cmd.data, cmd.data_mask,
                                         DoNothing))
             [] cmd.type = BTM_BLE_PF_SRVC_DATA_PATTERN ->
                  go(BTM_LE_PF_srvc_data_pattern(st, action, filt_index, cmd.data,
                                                 cmd.data_mask, DoNothing))
             [] OTHER -> go(st)

RECURSIVE SetLoop(_, _, _, _)
SetLoop(st, filt_index, commands, i) ==
  IF i > Len(commands) THEN [st |-> st, returned |-> FALSE]
  ELSE LET r == SetCommand(st, filt_index, commands[i])
       IN  IF r.returned THEN r ELSE SetLoop(r.st, filt_index, commands, i + 1)

BTM_LE_PF_set(st, filt_index, commands, cb) ==
  IF ~is_filtering_supported(st.vsc)
  THEN RunCb(st, cb, <<0, BTM_BLE_PF_ENABLE, "BTM_MODE_UNSUPPORTED">>)
  ELSE LET r == SetLoop(st, filt_index, commands, 1)
       IN  IF r.returned THEN r.st
           ELSE RunCb(r.st, cb, <<0, 0, "BTM_SUCCESS">>)

\* the feature-selection command of BTM_LE_PF_clear: header, selection, logic,
\* then the zeroes of the buffer up to the constant length
ClearFeatSelParam(filt_index) ==
  LET written == MetaHdr(BTM_BLE_META_PF_FEAT_SEL, BTM_BLE_SCAN_COND_CLEAR, filt_index)
                 \o UINT32_TO_STREAM(BTM_BLE_PF_SELECT_NONE)
                 \o UINT8_TO_STREAM(BTM_BLE_PF_LOGIC_OR)
      len == BTM_BLE_ADV_FILT_META_HDR_LENGTH + BTM_BLE_PF_FEAT_SEL_LEN
  IN  written \o Repeat(0, len - Len(written))

BTM_LE_PF_clear(st, filt_index, cb) ==
  IF ~is_filtering_supported(st.vsc)
  THEN RunCb(st, cb, <<0, BTM_BLE_PF_ENABLE, "BTM_MODE_UNSUPPORTED">>)
  ELSE
    LET fDoNothing == NullCb
        clr == BTM_BLE_SCAN_COND_CLEAR
        s1 == BTM_LE_PF_manu_data(st, clr, filt_index, 0, 0, <<>>, <<>>, fDoNothing)
        s2 == BTM_LE_PF_local_name(s1, clr, filt_index, <<>>, fDoNothing)
        s3 == BTM_LE_PF_srvc_data(s2, clr, filt_index)
        s4 == BTM_LE_PF_uuid_filter(s3, clr, filt_index, BTM_BLE_PF_SRVC_UUID,
                                    kEmptyUuid, kEmptyUuid, fDoNothing)
        s5 == BTM_LE_PF_uuid_filter(s4, clr, filt_index, BTM_BLE_PF_SRVC_SOL_UUID,
                                    kEmptyUuid, kEmptyUuid, fDoNothing)
        s6 == BTM_LE_PF_srvc_data_pattern(s5, clr, filt_index, <<>>, <<>>, fDoNothing)
        s7 == IF filt_index \in DOMAIN s6.map /\
                 ~btm_sec_is_a_bonded_dev(s6, s6.map[filt_index])
              THEN BTM_SecDeleteDevice(s6, s6.map[filt_index]).st ELSE s6
    IN  ClearTarget(btu_hcif_send_cmd_with_cb(s7, ClearFeatSelParam(filt_index),
                                              "btm_flt_update_cb",
                                              BTM_BLE_META_PF_FEAT_SEL, cb))

\* the first len bytes of a zeroed buffer into which written was streamed
Buffer(written, len) ==
  IF Len(written) >= len THEN SubSeq(written, 1, len)
  ELSE written \o Repeat(0, len - Len(written))

\* variant: the tracking-entry count is written on every chip version
ParamSetupAddParam_AlwaysTrack(vsc, filt_index, fp) ==
  LET head == MetaHdr(BTM_BLE_META_PF_FEAT_SEL, BTM_BLE_SCAN_COND_ADD, filt_index)
              \o UINT16_TO_STREAM(fp.feat_seln)
              \o UINT16_TO_STREAM(fp.list_logic_type)
              \o UINT8_TO_STREAM(fp.filt_logic_type)
              \o UINT8_TO_STREAM(fp.rssi_high_thres)
              \o UINT8_TO_STREAM(fp.dely_mode)
      track == IF fp.dely_mode = 1
               THEN UINT16_TO_STREAM(fp.found_timeout)
                    \o UINT8_TO_STREAM(fp.found_timeout_cnt)
                    \o UINT8_TO_STREAM(fp.rssi_low_thres)
                    \o UINT16_TO_STREAM(fp.lost_timeout)
                    \o UINT16_TO_STREAM(fp.num_of_tracking_entries)
               ELSE <<>>
      len == IF vsc.version_supported = BTM_VSC_CHIP_CAPABILITY_L_VERSION
             THEN BTM_BLE_ADV_FILT_META_HDR_LENGTH + BTM_BLE_ADV_FILT_FEAT_SELN_LEN
             ELSE BTM_BLE_ADV_FILT_META_HDR_LENGTH + BTM_BLE_ADV_FILT_FEAT_SELN_LEN
                  + BTM_BLE_ADV_FILT_TRACK_NUM
  IN  Buffer(head \o track, len)

\* the feature-selection Add command of BTM_BleAdvFilterParamSetup
ParamSetupAddParam(vsc, filt_index, fp) ==
  LET head == MetaHdr(BTM_BLE_META_PF_FEAT_SEL, BTM_BLE_SCAN_COND_ADD, filt_index)
              \o UINT16_TO_STREAM(fp.feat_seln)
              \o UINT16_TO_STREAM(fp.list_logic_type)
              \o UINT8_TO_STREAM(fp.filt_logic_type)
              \o UINT8_TO_STREAM(fp.rssi_high_thres)
              \o UINT8_TO_STREAM(fp.dely_mode)
      track == IF fp.dely_mode = 1
               THEN UINT16_TO_STREAM(fp.found_timeout)
                    \o UINT8_TO_STREAM(fp.found_timeout_cnt)
                    \o UINT8_TO_STREAM(fp.rssi_low_thres)
                    \o UINT16_TO_STREAM(fp.lost_timeout)
                    \o (IF vsc.version_supported > BTM_VSC_CHIP_CAPABILITY_L_VERSION
                        THEN UINT16_TO_STREAM(fp.num_of_tracking_entries) ELSE <<>>)
               ELSE <<>>
      len == IF vsc.version_supported = BTM_VSC_CHIP_CAPABILITY_L_VERSION
             THEN BTM_BLE_ADV_FILT_META_HDR_LENGTH + BTM_BLE_ADV_FILT_FEAT_SELN_LEN
             ELSE BTM_BLE_ADV_FILT_META_HDR_LENGTH + BTM_BLE_ADV_FILT_FEAT_SELN_LEN
                  + BTM_BLE_ADV_FILT_TRACK_NUM
  IN  Buffer(head \o track, len)

\* variant: the record is deleted without asking whether the device is bonded
ParamSetupDeleteRecord_NoBondCheck(st, filt_index) ==
  LET has == filt_index \in DOMAIN st.map
      old == st.map[filt_index]
      del == IF has THEN BTM_SecDeleteDevice(st, old) ELSE [st |-> st, ok |-> TRUE]
  IN  IF ~has THEN st
      ELSE IF ~del.ok THEN del.st
      ELSE [del.st EXCEPT !.map = MapErase(@, filt_index)]

\* the identity-record part of the Delete branch
ParamSetupDeleteRecord(st, filt_index) ==
  LET has == filt_index \in DOMAIN st.map
      old == st.map[filt_index]
      del == IF has /\ ~btm_sec_is_a_bonded_dev(st, old)
             THEN BTM_SecDeleteDevice(st, old) ELSE [st |-> st, ok |-> TRUE]
  IN  IF ~has THEN st
      ELSE IF ~del.ok THEN del.st
      ELSE [del.st EXCEPT !.map = MapErase(@, filt_index)]

BTM_BleAdvFilterParamSetup(st, action, filt_index, p_filt_params, cb) ==
  IF ~is_filtering_supported(st.vsc)
  THEN RunCb(st, cb, <<0, BTM_BLE_PF_ENABLE, "BTM_MODE_UNSUPPORTED">>)
  ELSE CASE action = BTM_BLE_SCAN_COND_ADD ->
              IF btm_ble_find_addr_filter_counter(st.tab, st.vsc.max_filter, NullPtr)
                   = NoSlot
              THEN RunCb(st, cb, <<0, BTM_BLE_PF_ENABLE, "BTM_UNKNOWN_ADDR">>)
              ELSE btu_hcif_send_cmd_with_cb(
                     st, ParamSetupAddParam(st.vsc, filt_index, p_filt_params),
                     "btm_flt_update_cb", BTM_BLE_META_PF_FEAT_SEL, cb)
         [] action = BTM_BLE_SCAN_COND_DELETE ->
              ParamSetupDeleteRecord(
                btu_hcif_send_cmd_with_cb(
                  st, Buffer(MetaHdr(BTM_BLE_META_PF_FEAT_SEL, BTM_BLE_SCAN_COND_DELETE,
                                     filt_index), BTM_BLE_ADV_FILT_META_HDR_LENGTH),
                  "btm_flt_update_cb", BTM_BLE_META_PF_FEAT_SEL, cb),
                filt_index)
         [] action = BTM_BLE_SCAN_COND_CLEAR ->
              btu_hcif_send_cmd_with_cb(
                [st EXCEPT !.tab = btm_ble_dealloc_addr_filter_counter(
                                     st.tab, st.vsc.max_filter, NullPtr,
                                     BTM_BLE_PF_TYPE_ALL).tab],
                Buffer(UINT8_TO_STREAM(BTM_BLE_META_PF_FEAT_SEL)
                       \o UINT8_TO_STREAM(BTM_BLE_SCAN_COND_CLEAR),
                       BTM_BLE_ADV_FILT_META_HDR_LENGTH - 1),
                "btm_flt_update_cb", BTM_BLE_META_PF_FEAT_SEL, cb)
         [] OTHER -> st

BTM_BleEnableDisableFilterFeature(st, enable, p_stat_cback) ==
  IF ~is_filtering_supported(st.vsc)
  THEN IF p_stat_cback # NullCb
       THEN RunCb(st, p_stat_cback, <<BTM_BLE_PF_ENABLE, "BTM_MODE_UNSUPPORTED">>)
       ELSE st
  ELSE btu_hcif_send_cmd_with_cb(
         st, Buffer(UINT8_TO_STREAM(BTM_BLE_META_PF_ENABLE) \o UINT8_TO_STREAM(enable),
                    BTM_BLE_PCF_ENABLE_LEN),
         "enable_cmpl_cback", BTM_BLE_META_PF_ENABLE, p_stat_cback)

(* ------------------------------------------------------------------ *)
(* Inputs of the model                                                 *)
(* ------------------------------------------------------------------ *)
\* the filter indexes callers use
FiltIdx == {0}
Actions == {BTM_BLE_SCAN_COND_ADD, BTM_BLE_SCAN_COND_DELETE, BTM_BLE_SCAN_COND_CLEAR}

ZeroIrk == Repeat(0, 16)
SomeIrk == [i \in 1..16 |-> IF i = 1 THEN 7 ELSE 0]
\* the 16-bit UUID 0x180F
Uuid16 == [kBaseUuid EXCEPT ![3] = 24, ![4] = 15]

\* an ApcfCommand of the given type, with the fields the other types ignore empty
Cmd(type, address, irk, data, data_mask) ==
  [type |-> type, address |-> address, irk |-> irk, uuid |-> Uuid16,
   uuid_mask |-> kEmptyUuid, name |-> <<110>>, company |-> 224, company_mask |-> 0,
   data |-> data, data_mask |-> data_mask]

SetCmds ==
  {Cmd(BTM_BLE_PF_ADDR_FILTER, "a1", SomeIrk, <<>>, <<>>),
   Cmd(BTM_BLE_PF_ADDR_FILTER, "a2", ZeroIrk, <<>>, <<>>)}
  \cup {Cmd(t, EmptyAddr, ZeroIrk, <<>>, <<>>) :
          t \in {BTM_BLE_PF_SRVC_DATA, BTM_BLE_PF_SRVC_UUID, BTM_BLE_PF_SRVC_SOL_UUID,
                 BTM_BLE_PF_LOCAL_NAME, BTM_BLE_PF_TYPE_MAX}}
  \cup {Cmd(t, EmptyAddr, ZeroIrk, <<1, 2>>, m) :
          t \in {BTM_BLE_PF_MANU_DATA, BTM_BLE_PF_SRVC_DATA_PATTERN},
          m \in {<<255, 255>>, <<255>>}}

\* address-filter commands without an IRK, one per address
AddrCmds == {Cmd(BTM_BLE_PF_ADDR_FILTER, a, ZeroIrk, <<>>, <<>>) : a \in Addr}

\* the command vectors a caller passes to BTM_LE_PF_set
SetInputs == {<<c>> : c \in SetCmds}

FiltParams ==
  {[feat_seln |-> 1, list_logic_type |-> 2, filt_logic_type |-> 1,
    rssi_high_thres |-> 200, dely_mode |-> d, found_timeout |-> 500,
    found_timeout_cnt |-> 3, rssi_low_thres |-> 180, lost_timeout |-> 700,
    num_of_tracking_entries |-> 4] : d \in {0, 1}}

\* the replies the controller may give to a command that expects subcode ocf
\* (a reply of three bytes has no num_avail byte)
OtherSubcode(ocf) ==
  IF ocf = BTM_BLE_META_PF_FEAT_SEL THEN BTM_BLE_META_PF_ENABLE
  ELSE BTM_BLE_META_PF_FEAT_SEL
Events(ocf) ==
  [len : {4}, status : {0, 1}, op_subcode : {ocf, OtherSubcode(ocf)},
   action : Actions, num_avail : {0, 1}]
  \cup [len : {3}, status : {0, 1}, op_subcode : {ocf, OtherSubcode(ocf)},
        action : Actions, num_avail : {0}]

\* what malloc'ed memory may hold before it is first written
Garbage ==
  {ZeroCount,
   [in_use |-> TRUE, bd_addr |-> "a1",
    pf_counter |-> [t \in CondTypes |-> IF t = BTM_BLE_PF_SRVC_UUID THEN 1 ELSE 0]]}

Op(name, action) == [op |-> name, action |-> action]

(* ------------------------------------------------------------------ *)
(* Initial state: btm_ble_adv_filter_init                              *)
(* ------------------------------------------------------------------ *)
\* the control block is zeroed, the capabilities are read, and when filtering
\* is supported the table is allocated with osi_malloc, which does not clear it
btm_ble_adv_filter_init ==
  /\ cmn_ble_vsc_cb \in [filter_support : {0, 1}, max_filter : {0, MaxFilter},
                         version_supported : {BTM_VSC_CHIP_CAPABILITY_M_VERSION}]
  /\ cur_filter_target = EmptyAddr
  /\ IF is_filtering_supported(cmn_ble_vsc_cb)
     THEN p_addr_filter_count \in [0..cmn_ble_vsc_cb.max_filter -> Garbage]
     ELSE p_addr_filter_count = [i \in {} |-> ZeroCount]

Init ==
  /\ btm_ble_adv_filter_init
  /\ remove_me_later_map = [x \in {} |-> EmptyAddr]
  /\ dev_rec = {}
  /\ bonded = {}
  /\ connected = {}
  /\ pid_keys = {}
  /\ cmd_queue = <<>>
  /\ cbRun = <<>>
  /\ crashed = FALSE
  /\ last = Op("init", 0)
  /\ addr_acked = {}
  /\ delCalls = <<>>
  /\ temp_recs = {}
  /\ update_ret = NoRet

(* ------------------------------------------------------------------ *)
(* Actions                                                             *)
(* ------------------------------------------------------------------ *)
\* the part of the state space the model follows
RECURSIVE SumTo(_, _)
SumTo(f, n) == IF n < 0 THEN 0 ELSE f[n] + SumTo(f, n - 1)
Followed(st) ==
  \A i \in DOMAIN st.tab :
     SumTo(st.tab[i].pf_counter, BTM_BLE_PF_TYPE_MAX - 1) <= MaxCount

Step(st, op) == Followed(st) /\ Becomes(st, op)
\* a caller issues an operation, once the replies to the last one are in
Issue(st, op) ==
  /\ ~crashed
  /\ cmd_queue = <<>>
  /\ Step(st, op)
  /\ UNCHANGED addr_acked

Set ==
  \E filt_index \in FiltIdx, commands \in SetInputs :
       Issue(BTM_LE_PF_set(Here, filt_index, commands, "cb_set"),
            Op("BTM_LE_PF_set", BTM_BLE_SCAN_COND_ADD))

Clear ==
  \E filt_index \in FiltIdx :
       Issue(BTM_LE_PF_clear(Here, filt_index, "cb_clear"),
            Op("BTM_LE_PF_clear", BTM_BLE_SCAN_COND_CLEAR))

ParamSetup ==
  \E action \in Actions, filt_index \in FiltIdx, fp \in FiltParams :
       Issue(BTM_BleAdvFilterParamSetup(Here, action, filt_index, fp, "cb_param"),
            Op("BTM_BleAdvFilterParamSetup", action))

EnableDisable ==
  \E enable \in {0, 1} :
       Issue(BTM_BleEnableDisableFilterFeature(Here, enable, "cb_enable"),
            Op("BTM_BleEnableDisableFilterFeature", enable))

\* the transport runs the continuation of the oldest command with its reply
Continuation(st, cmd, evt) ==
  IF cmd.fn = "btm_flt_update_cb"
  THEN btm_flt_update_cb(st, cmd.ocf, cmd.cb, evt)
  ELSE enable_cmpl_cback(st, cmd.cb, evt)

\* the address an address-filter command carries
AddrOfParam(param) == CHOOSE a \in Addr : param[4] = AddrByte(a)

\* whether evt acknowledges, with success, the Add of an address filter
AcksAddrAdd(cmd, evt) ==
  /\ cmd.ocf = BTM_BLE_META_PF_ADDR
  /\ cmd.param[2] = BTM_BLE_SCAN_COND_ADD
  /\ evt.len = 4 /\ evt.op_subcode = cmd.ocf /\ evt.status = 0
  /\ evt.action = BTM_BLE_SCAN_COND_ADD

\* the reply evt arrives for the oldest command
Delivered(evt) ==
  /\ ~crashed
  /\ cmd_queue # <<>>
  /\ Step(Continuation([Here EXCEPT !.q = Tail(cmd_queue)], Head(cmd_queue), evt),
          Op("reply", 0))

ReplyWith(evt) == Delivered(evt) /\ UNCHANGED addr_acked

\* the same step, with the history of acknowledged address filters kept
TrackedReplyWith(evt) ==
  /\ Delivered(evt)
  /\ addr_acked' = IF AcksAddrAdd(Head(cmd_queue), evt)
                   THEN addr_acked \cup {AddrOfParam(Head(cmd_queue).param)}
                   ELSE addr_acked

Reply ==
  /\ cmd_queue # <<>>
  /\ \E evt \in Events(Head(cmd_queue).ocf) : ReplyWith(evt)

Next ==
  \/ Set
  \/ Clear
  \/ ParamSetup
  \/ EnableDisable
  \/ Reply

Spec == Init /\ [][Next]_vars

\* the address-filter scenario: filters are set and acknowledged, and the
\* addresses acknowledged so far are remembered
TrackedReply ==
  /\ cmd_queue # <<>>
  /\ \E evt \in Events(Head(cmd_queue).ocf) : TrackedReplyWith(evt)

SetAddr ==
  \E filt_index \in FiltIdx, cmd \in AddrCmds :
    Issue(BTM_LE_PF_set(Here, filt_index, <<cmd>>, "cb_set"),
          Op("BTM_LE_PF_set", BTM_BLE_SCAN_COND_ADD))

NextAddr ==
  \/ SetAddr
  \/ TrackedReply

SpecAddr == Init /\ [][NextAddr]_vars

\* the identity-record scenario: address filters with an IRK are set, filter
\* indexes are cleared and deleted, while the rest of the stack makes device
\* records, bonds them and brings links up and down
IdAddr == {"a1", "a2"}
IrkCmds == {Cmd(BTM_BLE_PF_ADDR_FILTER, a, SomeIrk, <<>>, <<>>) : a \in IdAddr}

SetIrk ==
  \E filt_index \in FiltIdx, cmd \in IrkCmds :
    Issue(BTM_LE_PF_set(Here, filt_index, <<cmd>>, "cb_set"),
          Op("BTM_LE_PF_set", BTM_BLE_SCAN_COND_ADD))

ParamSetupDelete ==
  \E filt_index \in FiltIdx, fp \in FiltParams :
    Issue(BTM_BleAdvFilterParamSetup(Here, BTM_BLE_SCAN_COND_DELETE, filt_index,
                                     fp, "cb_param"),
          Op("BTM_BleAdvFilterParamSetup", BTM_BLE_SCAN_COND_DELETE))

\* a step of the rest of the stack, which leaves this module's state alone;
\* followed between the operations, once the replies are in
Elsewhere(st, op) ==
  /\ ~crashed
  /\ cmd_queue = <<>>
  /\ Step(st, op)
  /\ UNCHANGED addr_acked

DeviceAdded ==
  \E a \in IdAddr \ dev_rec :
     Elsewhere([Here EXCEPT !.dev = @ \cup {a}], Op("device added", 0))

DeviceBonded ==
  \E a \in dev_rec \ bonded :
     Elsewhere([Here EXCEPT !.bonded = @ \cup {a}], Op("device bonded", 0))

LinkUp ==
  \E a \in dev_rec \ connected :
     Elsewhere([Here EXCEPT !.conn = @ \cup {a}], Op("link up", 0))

LinkDown ==
  \E a \in connected :
     Elsewhere([Here EXCEPT !.conn = @ \ {a}], Op("link down", 0))

NextId ==
  \/ SetIrk
  \/ Clear
  \/ ParamSetupDelete
  \/ Reply
  \/ DeviceAdded
  \/ DeviceBonded
  \/ LinkUp
  \/ LinkDown

SpecId == Init /\ [][NextId]_vars

\* the counter-update scenario: btm_ble_cs_update_pf_counter is called with
\* any action, condition type (valid or not), address and num_available
UpdCondTypes ==
  {BTM_BLE_PF_ADDR_FILTER, BTM_BLE_PF_SRVC_UUID, BTM_BLE_PF_TYPE_ALL,
   BTM_BLE_PF_TYPE_MAX, BTM_BLE_PF_TYPE_MAX + 1, BTM_BLE_INVALID_COUNTER}
UpdAddrs == {NullPtr, "a1", "a2"}

UpdateCounterWith(action, cond_type, p_bd_addr, num_available) ==
  LET r == btm_ble_cs_update_pf_counter(
             p_addr_filter_count, cmn_ble_vsc_cb.max_filter, action, cond_type,
             p_bd_addr, num_available)
  IN  /\ is_filtering_supported(cmn_ble_vsc_cb)
      /\ Step([Here EXCEPT !.tab = r.tab, !.ret = r.ret],
              [op |-> "btm_ble_cs_update_pf_counter", action |-> action,
               cond_type |-> cond_type])
      /\ UNCHANGED addr_acked

UpdateCounter ==
  \E action \in Actions, cond_type \in UpdCondTypes, p_bd_addr \in UpdAddrs,
     num_available \in {0, 1} :
       UpdateCounterWith(action, cond_type, p_bd_addr, num_available)

NextUpdate ==
  \/ UpdateCounter

SpecUpdate == Init /\ [][NextUpdate]_vars

\* the pending-target scenario: the operations run from any value the pending
\* filter target may hold
InitTarget ==
  /\ cmn_ble_vsc_cb \in [filter_support : {1}, max_filter : {MaxFilter},
                         version_supported : {BTM_VSC_CHIP_CAPABILITY_M_VERSION}]
  /\ cur_filter_target \in {EmptyAddr, "a1"}
  /\ p_addr_filter_count = [i \in 0..cmn_ble_vsc_cb.max_filter |-> ZeroCount]
  /\ remove_me_later_map = [x \in {} |-> EmptyAddr]
  /\ dev_rec = {}
  /\ bonded = {}
  /\ connected = {}
  /\ pid_keys = {}
  /\ cmd_queue = <<>>
  /\ cbRun = <<>>
  /\ crashed = FALSE
  /\ last = Op("init", 0)
  /\ addr_acked = {}
  /\ delCalls = <<>>
  /\ temp_recs = {}
  /\ update_ret = NoRet

NextTarget ==
  \/ Set
  \/ Clear
  \/ ParamSetup
  \/ EnableDisable
  \/ Reply

SpecTarget == InitTarget /\ [][NextTarget]_vars

\* the encoder scenario: every condition encoder is called with any action
\* and a few inputs each, on controllers of three chip versions; the command
\* it sends stays in the queue, where its payload can be read
Versions ==
  {BTM_VSC_CHIP_CAPABILITY_L_VERSION - 1, BTM_VSC_CHIP_CAPABILITY_L_VERSION,
   BTM_VSC_CHIP_CAPABILITY_M_VERSION}
\* the 32-bit UUID 0x12345678 and a UUID outside the Bluetooth base range
Uuid32 == [kBaseUuid EXCEPT ![1] = 18, ![2] = 52, ![3] = 86, ![4] = 120]
Uuid128 == [i \in 1..16 |-> i]
\* a mask that is not empty
SomeMask == [i \in 1..16 |-> IF i <= 4 THEN 15 ELSE kBaseUuid[i]]
EncUuids == {Uuid16, Uuid32, Uuid128}
EncMasks == {kEmptyUuid, SomeMask}
EncData == {<<>>, <<1, 2>>}
EncDataMasks == {<<>>, <<255, 255>>}
EncCompanyMasks == {0, 255}

InitEnc ==
  /\ cmn_ble_vsc_cb \in [filter_support : {1}, max_filter : {MaxFilter},
                         version_supported : Versions]
  /\ cur_filter_target = EmptyAddr
  /\ p_addr_filter_count \in [0..cmn_ble_vsc_cb.max_filter -> Garbage]
  /\ remove_me_later_map = [x \in {} |-> EmptyAddr]
  /\ dev_rec = {}
  /\ bonded = {}
  /\ connected = {}
  /\ pid_keys = {}
  /\ cmd_queue = <<>>
  /\ cbRun = <<>>
  /\ crashed = FALSE
  /\ last = Op("init", 0)
  /\ addr_acked = {}
  /\ delCalls = <<>>
  /\ temp_recs = {}
  /\ update_ret = NoRet

EncodeAddr ==
  \E action \in Actions, filt_index \in FiltIdx, addr \in {"a1"} :
    Issue(BTM_LE_PF_addr_filter(Here, action, filt_index, addr, DoNothing),
          [op |-> "BTM_LE_PF_addr_filter", action |-> action])

EncodeUuid ==
  \E action \in Actions, filt_index \in FiltIdx, uuid \in EncUuids,
     filter_type \in {BTM_BLE_PF_SRVC_UUID, BTM_BLE_PF_SRVC_SOL_UUID},
     uuid_mask \in EncMasks :
    Issue(BTM_LE_PF_uuid_filter(Here, action, filt_index, filter_type, uuid,
                                uuid_mask, DoNothing),
          [op |-> "BTM_LE_PF_uuid_filter", action |-> action, uuid |-> uuid,
           uuid_mask |-> uuid_mask])

EncodeLocalName ==
  \E action \in Actions, filt_index \in FiltIdx, name \in {<<>>, <<110, 97>>} :
    Issue(BTM_LE_PF_local_name(Here, action, filt_index, name, DoNothing),
          [op |-> "BTM_LE_PF_local_name", action |-> action])

EncodeManuData ==
  \E action \in Actions, filt_index \in FiltIdx, company_id_mask \in EncCompanyMasks,
     data \in EncData, data_mask \in EncDataMasks :
    Issue(BTM_LE_PF_manu_data(Here, action, filt_index, 224, company_id_mask,
                              data, data_mask, DoNothing),
          [op |-> "BTM_LE_PF_manu_data", action |-> action,
           company_id_mask |-> company_id_mask, data |-> data,
           data_mask |-> data_mask])

EncodeSrvcDataPattern ==
  \E action \in Actions, filt_index \in FiltIdx, data \in EncData :
    Issue(BTM_LE_PF_srvc_data_pattern(Here, action, filt_index, data,
                                      [i \in 1..Len(data) |-> 255], DoNothing),
          [op |-> "BTM_LE_PF_srvc_data_pattern", action |-> action])

EncodeFeatSel ==
  \E action \in Actions, filt_index \in FiltIdx, fp \in FiltParams :
    Issue(BTM_BleAdvFilterParamSetup(Here, action, filt_index, fp, "cb_param"),
          [op |-> "BTM_BleAdvFilterParamSetup", action |-> action,
           dely_mode |-> fp.dely_mode,
           num_of_tracking_entries |-> fp.num_of_tracking_entries])

NextEnc ==
  \/ EncodeAddr
  \/ EncodeUuid
  \/ EncodeLocalName
  \/ EncodeManuData
  \/ EncodeSrvcDataPattern
  \/ EncodeFeatSel
  \/ Clear

SpecEnc == InitEnc /\ [][NextEnc]_vars

\* the two-command scenario: an address filter is set while the reply to an
\* earlier one is still awaited
SetAddrPending ==
  \E filt_index \in FiltIdx, cmd \in AddrCmds :
    /\ ~crashed
    /\ Len(cmd_queue) < MaxOutstanding
    /\ Step(BTM_LE_PF_set(Here, filt_index, <<cmd>>, "cb_set"),
            Op("BTM_LE_PF_set", BTM_BLE_SCAN_COND_ADD))
    /\ UNCHANGED addr_acked

NextPending ==
  \/ SetAddrPending
  \/ TrackedReply

SpecPending == Init /\ [][NextPending]_vars

\* the filter types btm_ble_dealloc_addr_filter_counter is called with
DeallocTypes ==
  {BTM_BLE_PF_ADDR_FILTER, BTM_BLE_PF_SRVC_UUID, BTM_BLE_PF_TYPE_ALL}

\* the entries a loop that starts at entry 1 and stops at entry stop has
\* looked at; a loop that finds nothing looks at max_filter entries from entry 1
LoopVisits(mf, stops) ==
  IF stops = {} THEN 1..mf ELSE 1..MinOf(stops)

\* the indexes of p_addr_filter_count each table function reads or writes
FindVisits(tab, mf, p_le_bda) ==
  IF p_le_bda = NullPtr THEN {0}
  ELSE LoopVisits(mf, {i \in 1..mf : tab[i].in_use /\ tab[i].bd_addr = p_le_bda})

AllocVisits(tab, mf, bd_addr) ==
  LoopVisits(mf, {i \in 1..mf : tab[i].bd_addr = EmptyAddr})

DeallocVisits(tab, mf, p_bd_addr, filter_type) ==
  (IF filter_type = BTM_BLE_PF_TYPE_ALL /\ p_bd_addr = NullPtr THEN {0} ELSE {})
  \cup LoopVisits(mf, IF p_bd_addr = NullPtr THEN {}
                      ELSE {i \in 1..mf : tab[i].in_use /\ tab[i].bd_addr = p_bd_addr})

\* the table scenario: the three table functions are called with any address
TableCall(tab, name, p_bd_addr, filter_type, visited) ==
  /\ is_filtering_supported(cmn_ble_vsc_cb)
  /\ Step([Here EXCEPT !.tab = tab],
          [op |-> name, action |-> 0, p_bd_addr |-> p_bd_addr,
           filter_type |-> filter_type, visited |-> visited])
  /\ UNCHANGED addr_acked

FindSlot ==
  \E p_le_bda \in UpdAddrs :
     TableCall(p_addr_filter_count, "btm_ble_find_addr_filter_counter",
               p_le_bda, 0,
               FindVisits(p_addr_filter_count, cmn_ble_vsc_cb.max_filter, p_le_bda))

AllocSlot ==
  \E bd_addr \in UpdAddrs \ {NullPtr} :
     TableCall(btm_ble_alloc_addr_filter_counter(
                 p_addr_filter_count, cmn_ble_vsc_cb.max_filter, bd_addr).tab,
               "btm_ble_alloc_addr_filter_counter", bd_addr, 0,
               AllocVisits(p_addr_filter_count, cmn_ble_vsc_cb.max_filter, bd_addr))

DeallocSlot ==
  \E p_bd_addr \in UpdAddrs, filter_type \in DeallocTypes :
     TableCall(btm_ble_dealloc_addr_filter_counter(
                 p_addr_filter_count, cmn_ble_vsc_cb.max_filter, p_bd_addr,
                 filter_type).tab,
               "btm_ble_dealloc_addr_filter_counter", p_bd_addr, filter_type,
               DeallocVisits(p_addr_filter_count, cmn_ble_vsc_cb.max_filter,
                             p_bd_addr, filter_type))

NextSlots ==
  \/ FindSlot
  \/ AllocSlot
  \/ DeallocSlot

SpecSlots == Init /\ [][NextSlots]_vars

(* ------------------------------------------------------------------ *)
(* Properties                                                          *)
(* ------------------------------------------------------------------ *)
\* the step processes a reply to the oldest command
ReplyStep == cmd_queue # <<>> /\ last'.op = "reply"

\* the replies the oldest command may get
HeadEvents == Events(Head(cmd_queue).ocf)

\* the oldest command is a filter command routed through btm_flt_update_cb
FilterCmdWaits ==
  cmd_queue # <<>> /\ Head(cmd_queue).fn = "btm_flt_update_cb"

\* the per-address entries that lie inside the allocation of max_filter entries
InBounds == 1 .. (cmn_ble_vsc_cb.max_filter - 1)

\* evt passes the router's checks for the oldest command
PassesChecks(evt) ==
  evt.len = 4 /\ evt.op_subcode = Head(cmd_queue).ocf

\* some counter of the table is larger after the step than before it
SomeCounterGrows ==
  \E i \in DOMAIN p_addr_filter_count : \E t \in CondTypes :
     p_addr_filter_count'[i].pf_counter[t] > p_addr_filter_count[i].pf_counter[t]

\* C1: a reply to a filter command whose length is not 4 bytes, or whose
\* echoed subcode is not the expected one, runs no continuation and leaves
\* every entry of the accounting table as it was.
C1_DroppedReplyChangesNothing ==
  [][ReplyStep => \A evt \in HeadEvents :
       (/\ FilterCmdWaits
        /\ (evt.len # 4 \/ evt.op_subcode # Head(cmd_queue).ocf)
        /\ ReplyWith(evt))
       => (/\ p_addr_filter_count' = p_addr_filter_count
           /\ cbRun' = <<>>
           /\ ~crashed')]_vars

\* a reply inside the batch of BTM_LE_PF_clear was dropped: no callback ran,
\* the process lives, the rest of the batch still waits
C1_Witness ==
  /\ last.op = "reply"
  /\ cbRun = <<>>
  /\ ~crashed
  /\ FilterCmdWaits

\* C2 (as amended): a successful reply to an address-filter command with
\* action Add and numAvailable 1 adds one to the ADDR_FILTER counter of the
\* generic entry 0 and changes nothing else (no entry is bound to the
\* address); a successful reply with action Delete leaves entry 0 as it was,
\* zeroes every in-use per-address entry inside the allocation, and afterwards
\* none of these entries is in use for any address.
C2_AddrAddCountsInGenericEntry ==
  [][ReplyStep => \A evt \in HeadEvents :
       (/\ FilterCmdWaits
        /\ Head(cmd_queue).ocf = BTM_BLE_META_PF_ADDR
        /\ PassesChecks(evt)
        /\ evt.status = 0
        /\ TrackedReplyWith(evt))
       => LET tab == p_addr_filter_count
          IN  /\ (evt.action = BTM_BLE_SCAN_COND_ADD /\ evt.num_avail = 1) =>
                   p_addr_filter_count' =
                     [tab EXCEPT ![0].pf_counter[BTM_BLE_PF_ADDR_FILTER] = (@ + 1) % 256]
              /\ (evt.action = BTM_BLE_SCAN_COND_DELETE) =>
                   /\ p_addr_filter_count'[0] = tab[0]
                   /\ \A i \in InBounds :
                        p_addr_filter_count'[i] =
                          IF tab[i].in_use THEN ZeroCount ELSE tab[i]
                   /\ \A a \in Addr : \A i \in InBounds :
                        ~(p_addr_filter_count'[i].in_use /\
                          p_addr_filter_count'[i].bd_addr = a)]_vars

\* an address filter was added and acknowledged, then a Delete was acknowledged
C2_Witness ==
  /\ last.op = "reply"
  /\ addr_acked # {}
  /\ \E n \in {0, 1} :
       cbRun = <<[cb |-> DoNothing,
                  args |-> <<n, BTM_BLE_SCAN_COND_DELETE, "BTM_SUCCESS">>]>>
  /\ p_addr_filter_count[0].pf_counter[BTM_BLE_PF_ADDR_FILTER] >= 1
  /\ InBounds # {}
  /\ \A i \in InBounds : p_addr_filter_count[i] = ZeroCount

\* C2 (as claimed): after the acknowledged Add the counters of the generic
\* entry 0 are untouched and an entry bound to the address has ADDR_FILTER
\* counter 1.
C2_Original ==
  [][ReplyStep => \A evt \in HeadEvents :
       (/\ FilterCmdWaits
        /\ Head(cmd_queue).ocf = BTM_BLE_META_PF_ADDR
        /\ PassesChecks(evt)
        /\ evt.status = 0
        /\ evt.action = BTM_BLE_SCAN_COND_ADD
        /\ evt.num_avail = 1
        /\ TrackedReplyWith(evt))
       => /\ p_addr_filter_count'[0].pf_counter = p_addr_filter_count[0].pf_counter
          /\ \E i \in 1..cmn_ble_vsc_cb.max_filter :
               /\ p_addr_filter_count'[i].in_use
               /\ p_addr_filter_count'[i].bd_addr = AddrOfParam(Head(cmd_queue).param)
               /\ p_addr_filter_count'[i].pf_counter[BTM_BLE_PF_ADDR_FILTER] = 1]_vars

\* the value btm_ble_cs_update_pf_counter returns to the router for reply evt
RouterRet(evt) ==
  btm_ble_cs_update_pf_counter(
    p_addr_filter_count, cmn_ble_vsc_cb.max_filter, evt.action,
    btm_ble_ocf_to_condtype(Head(cmd_queue).ocf),
    IF cur_filter_target = EmptyAddr THEN NullPtr ELSE cur_filter_target,
    evt.num_avail).ret

\* C3 (as amended): the acknowledged Add of an address filter is accounted in
\* the generic entry 0 whatever addresses were acknowledged before: no
\* per-address entry is bound, and the update returns the ADDR_FILTER counter
\* of entry 0 after its increment (one more when numAvailable > 0, modulo
\* 256), which is the count of the adds and not the sentinel.
C3_AddrAddNeverExhausts ==
  [][ReplyStep => \A evt \in HeadEvents :
       (/\ FilterCmdWaits
        /\ Head(cmd_queue).ocf = BTM_BLE_META_PF_ADDR
        /\ PassesChecks(evt)
        /\ evt.status = 0
        /\ evt.action = BTM_BLE_SCAN_COND_ADD
        /\ TrackedReplyWith(evt))
       => LET tab == p_addr_filter_count
              c == (tab[0].pf_counter[BTM_BLE_PF_ADDR_FILTER]
                    + (IF evt.num_avail > 0 THEN 1 ELSE 0)) % 256
          IN  /\ RouterRet(evt) = c
              /\ p_addr_filter_count' =
                   [tab EXCEPT ![0].pf_counter[BTM_BLE_PF_ADDR_FILTER] = c]]_vars

\* more distinct addresses than max_filter have had their Add acknowledged
C3_Witness ==
  /\ is_filtering_supported(cmn_ble_vsc_cb)
  /\ Cardinality(addr_acked) > cmn_ble_vsc_cb.max_filter
  /\ last.op = "reply"
  /\ p_addr_filter_count[0].pf_counter[BTM_BLE_PF_ADDR_FILTER]
       > cmn_ble_vsc_cb.max_filter

\* C3 (as claimed): once max_filter distinct addresses have had their Add
\* acknowledged, the acknowledged Add of a further new address makes the
\* update return the sentinel 0xFF.
C3_Original ==
  [][ReplyStep => \A evt \in HeadEvents :
       (/\ FilterCmdWaits
        /\ AcksAddrAdd(Head(cmd_queue), evt)
        /\ Cardinality(addr_acked) >= cmn_ble_vsc_cb.max_filter
        /\ AddrOfParam(Head(cmd_queue).param) \notin addr_acked
        /\ TrackedReplyWith(evt))
       => RouterRet(evt) = BTM_BLE_INVALID_COUNTER]_vars

\* the step is BTM_BleAdvFilterParamSetup with action Clear on a controller
\* that supports filtering
ParamSetupClearStep ==
  /\ is_filtering_supported(cmn_ble_vsc_cb)
  /\ last'.op = "BTM_BleAdvFilterParamSetup"
  /\ last'.action = BTM_BLE_SCAN_COND_CLEAR

C5_CounterGrowsOnlyOnAckedAdd ==
  [][SomeCounterGrows =>
       /\ FilterCmdWaits
       /\ \E evt \in HeadEvents :
          /\ last'.op = "reply"
          /\ PassesChecks(evt)
          /\ evt.status = 0
          /\ evt.action = BTM_BLE_SCAN_COND_ADD
          /\ ReplyWith(evt)]_vars

\* C6: no counter of any entry exceeds the capacity the controller reported.
C6_CounterWithinCapacity ==
  \A i \in DOMAIN p_addr_filter_count : \A t \in CondTypes :
     p_addr_filter_count[i].pf_counter[t] <= cmn_ble_vsc_cb.max_filter

\* C7 (as amended): the table changes only in these steps: the router
\* processing a reply that passed its checks, reports success and is not a
\* feature-selection reply; BTM_LE_PF_clear, which adds one to the
\* service-data counter of entry 0 when it is called; and
\* BTM_BleAdvFilterParamSetup with action Clear, which deallocates when it is
\* called. BTM_LE_PF_set, the other actions of BTM_BleAdvFilterParamSetup and
\* BTM_BleEnableDisableFilterFeature leave it as it was.
C7_TableChangesOnlyInTheseSteps ==
  [][(p_addr_filter_count' # p_addr_filter_count) =>
       \/ /\ last'.op = "BTM_LE_PF_clear"
          /\ p_addr_filter_count' =
               [p_addr_filter_count EXCEPT
                  ![0].pf_counter[BTM_BLE_PF_SRVC_DATA] = (@ + 1) % 256]
       \/ /\ last'.op = "BTM_BleAdvFilterParamSetup"
          /\ last'.action = BTM_BLE_SCAN_COND_CLEAR
       \/ /\ FilterCmdWaits
          /\ \E evt \in HeadEvents :
            /\ last'.op = "reply"
            /\ PassesChecks(evt)
            /\ evt.status = 0
            /\ Head(cmd_queue).ocf # BTM_BLE_META_PF_FEAT_SEL
            /\ ReplyWith(evt)]_vars

\* BTM_LE_PF_clear has counted service data before any of its six commands
\* was acknowledged
C7_Witness ==
  /\ last.op = "BTM_LE_PF_clear"
  /\ Len(cmd_queue) = 6
  /\ p_addr_filter_count[0].pf_counter[BTM_BLE_PF_SRVC_DATA] >= 1

\* C7 (as claimed): the table changes only when a reply is processed.
C7_Original ==
  [][(p_addr_filter_count' # p_addr_filter_count) => last'.op = "reply"]_vars

\* C8 (as amended): when the router runs the continuation of a reply that
\* passed its checks and is not a feature-selection reply, the arguments are
\* the reply's numAvailable byte, its action byte and the mapped status; the
\* value the counter update returned is not passed on.
C8_ContinuationGetsNumAvail ==
  [][ReplyStep => \A evt \in HeadEvents :
       (/\ FilterCmdWaits
        /\ Head(cmd_queue).ocf # BTM_BLE_META_PF_FEAT_SEL
        /\ Head(cmd_queue).cb # NullCb
        /\ PassesChecks(evt)
        /\ ReplyWith(evt))
       => cbRun' = <<[cb |-> Head(cmd_queue).cb,
                      args |-> <<evt.num_avail, evt.action,
                                 IF evt.status = 0 THEN "BTM_SUCCESS"
                                 ELSE "BTM_ERR_PROCESSING">>]>>]_vars

\* a failed reply reached the continuation with numAvailable 1, not the sentinel
C8_Witness ==
  /\ last.op = "reply"
  /\ cbRun = <<[cb |-> DoNothing,
                args |-> <<1, BTM_BLE_SCAN_COND_ADD, "BTM_ERR_PROCESSING">>]>>

\* C8 (as claimed): the first argument is the counter the update returned,
\* or the sentinel when no counter was updated.
C8_Original ==
  [][ReplyStep => \A evt \in HeadEvents :
       (/\ FilterCmdWaits
        /\ Head(cmd_queue).ocf # BTM_BLE_META_PF_FEAT_SEL
        /\ Head(cmd_queue).cb # NullCb
        /\ PassesChecks(evt)
        /\ ReplyWith(evt))
       => /\ Len(cbRun') = 1
          /\ cbRun'[1].args[1] =
               IF evt.status = 0 THEN RouterRet(evt) ELSE BTM_BLE_INVALID_COUNTER]_vars

\* C9: a reply that passed the checks runs the continuation exactly once,
\* with BTM_ERR_PROCESSING and the table unchanged when its status byte is
\* not zero, with BTM_SUCCESS when it is zero.
C9_FailureStillReachesCaller ==
  [][ReplyStep => \A evt \in HeadEvents :
       (/\ FilterCmdWaits
        /\ PassesChecks(evt)
        /\ ReplyWith(evt))
       => /\ Len(cbRun') = 1
          /\ evt.status # 0 =>
               /\ cbRun'[1].args[3] = "BTM_ERR_PROCESSING"
               /\ p_addr_filter_count' = p_addr_filter_count
          /\ evt.status = 0 => cbRun'[1].args[3] = "BTM_SUCCESS"]_vars

\* C10 (as amended): the callback given to BTM_LE_PF_set runs inside the call,
\* before any reply to its commands has been processed: at most once, as the
\* last callback of the call, with (0, 0, BTM_SUCCESS) when filtering is
\* supported and with (0, BTM_BLE_PF_ENABLE, BTM_MODE_UNSUPPORTED) when it is
\* not; no command carries it as its continuation, so no reply runs it.
C10_SetCallbackRunsInTheCall ==
  /\ \A i \in DOMAIN cbRun :
       cbRun[i].cb = "cb_set" =>
         /\ last.op = "BTM_LE_PF_set"
         /\ i = Len(cbRun)
         /\ cbRun[i].args =
              IF is_filtering_supported(cmn_ble_vsc_cb)
              THEN <<0, 0, "BTM_SUCCESS">>
              ELSE <<0, BTM_BLE_PF_ENABLE, "BTM_MODE_UNSUPPORTED">>
  /\ \A k \in DOMAIN cmd_queue : cmd_queue[k].cb # "cb_set"

\* the callback has run with success while the command of the call still
\* waits for its reply
C10_Witness ==
  /\ last.op = "BTM_LE_PF_set"
  /\ cmd_queue # <<>>
  /\ cbRun = <<[cb |-> "cb_set", args |-> <<0, 0, "BTM_SUCCESS">>]>>

\* C10 (as claimed): the callback of BTM_LE_PF_set runs only in a step that
\* processes a reply.
C10_Original ==
  \A i \in DOMAIN cbRun : cbRun[i].cb = "cb_set" => last.op = "reply"

\* the step is BTM_LE_PF_clear or BTM_BleAdvFilterParamSetup with action Delete
ClearOrDeleteStep ==
  \/ last'.op = "BTM_LE_PF_clear"
  \/ /\ last'.op = "BTM_BleAdvFilterParamSetup"
     /\ last'.action = BTM_BLE_SCAN_COND_DELETE

\* C11: after BTM_LE_PF_clear or BTM_BleAdvFilterParamSetup with action Delete
\* has run for a filter index that had an entry in the identity map, the map
\* has no entry for that index, whatever became of the device record.
C11_MappingRemovedOnClearOrDelete ==
  [][\A f \in FiltIdx :
       (ClearOrDeleteStep /\ f \in DOMAIN remove_me_later_map)
       => f \notin DOMAIN remove_me_later_map']_vars

\* C12: every BTM_SecDeleteDevice call targets an address whose record was
\* made here by btm_sec_alloc_dev and was not deleted here since.
C12_OnlyOwnRecordsDeleted ==
  \A i \in DOMAIN delCalls : delCalls[i].temp

\* C13: no BTM_SecDeleteDevice call is made for a device that is bonded when
\* the call is made.
C13_BondedNeverDeleted ==
  \A i \in DOMAIN delCalls : ~delCalls[i].bonded

\* a record was asked to be deleted while another device is bonded
C13_Witness ==
  /\ delCalls # <<>>
  /\ bonded # {}
  /\ last.op \in {"BTM_LE_PF_set", "BTM_LE_PF_clear", "BTM_BleAdvFilterParamSetup"}

\* C14: when BTM_LE_PF_set meets a record it cannot delete because its device
\* is still connected, no address-filter command has been sent, no device
\* record was made and no map entry stored.
C14_BusyGuardInstallsNothing ==
  [][(/\ last'.op = "BTM_LE_PF_set"
      /\ delCalls' # <<>>
      /\ delCalls'[1].addr \in connected)
     => (/\ cmd_queue' = cmd_queue
         /\ dev_rec' = dev_rec
         /\ remove_me_later_map' = remove_me_later_map)]_vars

\* the callback and arguments each public operation uses to report that
\* filtering is unsupported
UnsupportedReport ==
  [BTM_LE_PF_set |->
     [cb |-> "cb_set", args |-> <<0, BTM_BLE_PF_ENABLE, "BTM_MODE_UNSUPPORTED">>],
   BTM_LE_PF_clear |->
     [cb |-> "cb_clear", args |-> <<0, BTM_BLE_PF_ENABLE, "BTM_MODE_UNSUPPORTED">>],
   BTM_BleAdvFilterParamSetup |->
     [cb |-> "cb_param", args |-> <<0, BTM_BLE_PF_ENABLE, "BTM_MODE_UNSUPPORTED">>],
   BTM_BleEnableDisableFilterFeature |->
     [cb |-> "cb_enable", args |-> <<BTM_BLE_PF_ENABLE, "BTM_MODE_UNSUPPORTED">>]]

\* C15: when filter_support is 0 or max_filter is 0, each public operation
\* runs its callback once with the unsupported status, sends no command and
\* leaves the accounting table and the identity map as they were.
C15_UnsupportedReportsAndDoesNothing ==
  [][(/\ (cmn_ble_vsc_cb.filter_support = 0 \/ cmn_ble_vsc_cb.max_filter = 0)
      /\ last'.op \in DOMAIN UnsupportedReport)
     => (/\ cbRun' = <<UnsupportedReport[last'.op]>>
         /\ cmd_queue' = cmd_queue
         /\ cmd_queue' = <<>>
         /\ p_addr_filter_count' = p_addr_filter_count
         /\ remove_me_later_map' = remove_me_later_map
         /\ dev_rec' = dev_rec)]_vars

\* the controller reports filter support but no filter capacity, and the
\* parameter setup was answered with the unsupported status
C15_Witness ==
  /\ cmn_ble_vsc_cb.filter_support = 1
  /\ cmn_ble_vsc_cb.max_filter = 0
  /\ last.op = "BTM_BleAdvFilterParamSetup"
  /\ cbRun = <<[cb |-> "cb_param",
                args |-> <<0, BTM_BLE_PF_ENABLE, "BTM_MODE_UNSUPPORTED">>]>>
  /\ cmd_queue = <<>>

\* C16: no null continuation is ever run.
C16_NoNullContinuationRun ==
  ~crashed

\* C17: a call of btm_ble_cs_update_pf_counter with a condition type above
\* BTM_BLE_PF_TYPE_ALL returns the invalid counter and leaves every entry of
\* the table as it was, whatever the action, the address and num_available:
\* so also when it is called again.
C17_UnknownCondTypeIsNoOp ==
  [][(/\ last'.op = "btm_ble_cs_update_pf_counter"
      /\ last'.cond_type > BTM_BLE_PF_TYPE_ALL)
     => (/\ update_ret' = BTM_BLE_INVALID_COUNTER
         /\ p_addr_filter_count' = p_addr_filter_count)]_vars

\* the update was called with an unknown condition type on a table that has
\* an entry bound to an address, and returned the invalid counter
C17_Witness ==
  /\ last.op = "btm_ble_cs_update_pf_counter"
  /\ last.cond_type > BTM_BLE_PF_TYPE_ALL
  /\ update_ret = BTM_BLE_INVALID_COUNTER
  /\ \E i \in 1..cmn_ble_vsc_cb.max_filter :
       /\ p_addr_filter_count[i].in_use
       /\ p_addr_filter_count[i].bd_addr = "a2"

\* C18: at most one in-use entry is bound to any given address.
C18_OneEntryPerAddress ==
  \A a \in Addr :
     Cardinality({i \in 1..cmn_ble_vsc_cb.max_filter :
                    /\ i \in DOMAIN p_addr_filter_count
                    /\ p_addr_filter_count[i].in_use
                    /\ p_addr_filter_count[i].bd_addr = a}) <= 1

\* C19: a reply to a feature-selection command leaves the accounting table as
\* it was, whatever its status, action and numAvailable bytes; one that passes
\* the router's checks is handed to the continuation with these bytes and
\* the mapped status.
C19_FeatSelRepliesLeaveTable ==
  [][(ReplyStep /\ FilterCmdWaits /\
      Head(cmd_queue).ocf = BTM_BLE_META_PF_FEAT_SEL)
     => (/\ p_addr_filter_count' = p_addr_filter_count
         /\ \A evt \in HeadEvents :
              (PassesChecks(evt) /\ ReplyWith(evt))
              => cbRun' = <<[cb |-> Head(cmd_queue).cb,
                             args |-> <<evt.num_avail, evt.action,
                                        IF evt.status = 0 THEN "BTM_SUCCESS"
                                        ELSE "BTM_ERR_PROCESSING">>]>>)]_vars

\* a successful feature-selection reply with numAvailable 1 reached the
\* callback of BTM_BleAdvFilterParamSetup
C19_Witness ==
  /\ last.op = "reply"
  /\ cbRun = <<[cb |-> "cb_param",
                args |-> <<1, BTM_BLE_SCAN_COND_ADD, "BTM_SUCCESS">>]>>

SentOne == Len(cmd_queue) = 1
\* the payload of that command
SentParam == cmd_queue[1].param

\* C21: for every condition encoder (address, UUID, solicited UUID, local
\* name, manufacturer data, service-data pattern, feature selection), a command
\* sent with action Clear has a payload of exactly the 3 header bytes (opcode,
\* action, filter index) and no type-specific bytes.
C21_ClearPayloadIsHeaderOnly ==
  (last.op # "init" /\ last.action = BTM_BLE_SCAN_COND_CLEAR) =>
     \A i \in DOMAIN cmd_queue :
        Len(cmd_queue[i].param) = BTM_BLE_ADV_FILT_META_HDR_LENGTH

\* C22: for a non-Clear action, the manufacturer-data encoder given non-empty
\* data and an empty data mask sends header, company id and company-id mask
\* only (7 bytes, no data and no mask bytes), the company-id mask being 0xFFFF
\* when the caller supplied zero.
C22_ManuDataWithoutMaskOmitsBody ==
  (/\ last.op = "BTM_LE_PF_manu_data"
   /\ last.action # BTM_BLE_SCAN_COND_CLEAR
   /\ last.data # <<>>
   /\ last.data_mask = <<>>) =>
     /\ SentOne
     /\ Len(SentParam) = 7
     /\ SubSeq(SentParam, 1, 2) = <<BTM_BLE_META_PF_MANU_DATA, last.action>>
     /\ SubSeq(SentParam, 4, 5) = <<224, 0>>
     /\ SubSeq(SentParam, 6, 7) =
          IF last.company_id_mask = 0 THEN <<255, 255>>
          ELSE <<last.company_id_mask % 256, last.company_id_mask \div 256>>

\* the manufacturer-data encoder ran with data, no mask and a zero company mask
C22_Witness ==
  /\ last.op = "BTM_LE_PF_manu_data"
  /\ last.action = BTM_BLE_SCAN_COND_ADD
  /\ last.data = <<1, 2>>
  /\ last.data_mask = <<>>
  /\ last.company_id_mask = 0
  /\ SentOne
  /\ SentParam = <<BTM_BLE_META_PF_MANU_DATA, BTM_BLE_SCAN_COND_ADD, 0, 224, 0, 255, 255>>

\* C23: for a non-Clear action, the UUID encoder given a UUID of width 16, 32
\* or 128 bits and an empty mask emits, after the UUID, a mask of that same
\* width with every byte 0xFF: the payload is 3 + 2 * width bytes long.
C23_EmptyMaskIsAllOnes ==
  (/\ last.op = "BTM_LE_PF_uuid_filter"
   /\ last.action # BTM_BLE_SCAN_COND_CLEAR
   /\ last.uuid_mask = kEmptyUuid) =>
     LET width == GetShortestRepresentationSize(last.uuid)
     IN  /\ width \in {2, 4, 16}
         /\ SentOne
         /\ Len(SentParam) = 3 + 2 * width
         /\ \A i \in (3 + width + 1) .. (3 + 2 * width) : SentParam[i] = 255

\* the UUID encoder ran with a 128-bit UUID and an empty mask
C23_Witness ==
  /\ last.op = "BTM_LE_PF_uuid_filter"
  /\ last.action = BTM_BLE_SCAN_COND_ADD
  /\ last.uuid = Uuid128
  /\ last.uuid_mask = kEmptyUuid
  /\ SentOne
  /\ Len(SentParam) = 35

\* the last step was the feature-selection Add of BTM_BleAdvFilterParamSetup
FeatSelAdded ==
  last.op = "BTM_BleAdvFilterParamSetup" /\ last.action = BTM_BLE_SCAN_COND_ADD

\* the tracking-entry count is written: on-found/on-lost delivery on a chip
\* newer than the L version
TrackingWritten ==
  /\ last.dely_mode = 1
  /\ cmn_ble_vsc_cb.version_supported > BTM_VSC_CHIP_CAPABILITY_L_VERSION

\* C26 (amended): the feature-selection Add command of
\* BTM_BleAdvFilterParamSetup has one of two wire lengths, chosen by the chip
\* version alone: 16 bytes on the L version, 18 bytes on any other. The
\* delivery mode decides only how much of it is written: without
\* on-found/on-lost delivery everything after the delivery-mode byte is zero.
\* The last two bytes of an 18-byte command hold the tracking-entry count when
\* delivery is on-found/on-lost and the chip is newer than L, and zero otherwise.
C26_FeatSelLengthFollowsVersion ==
  FeatSelAdded =>
     /\ SentOne
     /\ Len(SentParam) =
          IF cmn_ble_vsc_cb.version_supported = BTM_VSC_CHIP_CAPABILITY_L_VERSION
          THEN BTM_BLE_ADV_FILT_META_HDR_LENGTH + BTM_BLE_ADV_FILT_FEAT_SELN_LEN
          ELSE BTM_BLE_ADV_FILT_META_HDR_LENGTH + BTM_BLE_ADV_FILT_FEAT_SELN_LEN
               + BTM_BLE_ADV_FILT_TRACK_NUM
     /\ SentParam[10] = last.dely_mode
     /\ last.dely_mode # 1 => \A i \in 11 .. Len(SentParam) : SentParam[i] = 0
     /\ Len(SentParam) = 18 =>
          SubSeq(SentParam, 17, 18) =
            IF TrackingWritten THEN UINT16_TO_STREAM(last.num_of_tracking_entries)
            ELSE <<0, 0>>

\* an Add with on-found/on-lost delivery on an M chip: 18 bytes ending in the
\* tracking-entry count
C26_Witness ==
  /\ FeatSelAdded
  /\ TrackingWritten
  /\ SentOne
  /\ Len(SentParam) = 18
  /\ SubSeq(SentParam, 17, 18) = <<4, 0>>

\* C26 as stated: the wire length is one of three, chosen by delivery mode and
\* chip version together: the fields up to the delivery mode, those plus the
\* tracking fields, and those plus the tracking-entry count.
C26_Original ==
  FeatSelAdded =>
     /\ SentOne
     /\ Len(SentParam) =
          IF last.dely_mode # 1 THEN 10
          ELSE IF TrackingWritten THEN 18 ELSE 16

\* two address-filter commands for different addresses wait for their replies
TwoAddrCmdsWait ==
  /\ Len(cmd_queue) = 2
  /\ \A i \in 1..2 : cmd_queue[i].ocf = BTM_BLE_META_PF_ADDR
  /\ AddrOfParam(cmd_queue[1].param) # AddrOfParam(cmd_queue[2].param)

PerAddress == DOMAIN p_addr_filter_count \ {0}

\* the in-use per-address entries bound to address a before the step
BoundTo(a) ==
  {i \in PerAddress : p_addr_filter_count[i].in_use /\
                      p_addr_filter_count[i].bd_addr = a}

\* C25: btm_ble_dealloc_addr_filter_counter with a specific address zeroes at
\* most one entry, the first in-use entry bound to that address, and leaves
\* all other entries unchanged; with a null address it zeroes every in-use
\* per-address entry, and the generic entry 0 only when the type is ALL.
C25_DeallocZeroesFirstOrAll ==
  [][last'.op = "btm_ble_dealloc_addr_filter_counter" =>
       LET a == last'.p_bd_addr
           old == p_addr_filter_count
           new == p_addr_filter_count'
       IN  IF a # NullPtr
           THEN /\ new[0] = old[0]
                /\ \A i \in PerAddress :
                     new[i] = IF i \in BoundTo(a) /\ \A j \in BoundTo(a) : i <= j
                              THEN ZeroCount ELSE old[i]
           ELSE /\ new[0] = IF last'.filter_type = BTM_BLE_PF_TYPE_ALL
                            THEN ZeroCount ELSE old[0]
                /\ \A i \in PerAddress :
                     new[i] = IF old[i].in_use THEN ZeroCount ELSE old[i]]_vars

\* a1 was deallocated from a table with two entries bound to it: the first is
\* zeroed, the second is still bound
C25_Witness ==
  /\ last.op = "btm_ble_dealloc_addr_filter_counter"
  /\ last.p_bd_addr = "a1"
  /\ p_addr_filter_count[1] = ZeroCount
  /\ p_addr_filter_count[2].in_use
  /\ p_addr_filter_count[2].bd_addr = "a1"

\* C27: the enable/disable completion handler invokes the status callback
\* exactly once, with the echoed action and SUCCESS when the status byte is 0,
\* else ERR_PROCESSING, when the reply is exactly 3 bytes long and its echoed
\* subcode is the enable subcode; for any other length or subcode it invokes
\* no callback.
C27_EnableReplyRunsStatusCallback ==
  [][(ReplyStep /\ Head(cmd_queue).fn = "enable_cmpl_cback")
     => \A evt \in HeadEvents :
          ReplyWith(evt)
          => cbRun' = IF evt.len = 3 /\ evt.op_subcode = BTM_BLE_META_PF_ENABLE
                      THEN <<[cb |-> Head(cmd_queue).cb,
                              args |-> <<evt.action,
                                         IF evt.status = 0 THEN "BTM_SUCCESS"
                                         ELSE "BTM_ERR_PROCESSING">>]>>
                      ELSE <<>>]_vars

\* a failed enable reply of 3 bytes reached the status callback
C27_Witness ==
  /\ last.op = "reply"
  /\ cbRun = <<[cb |-> "cb_enable",
                args |-> <<BTM_BLE_SCAN_COND_ADD, "BTM_ERR_PROCESSING">>]>>

\* C28: every index of the table that btm_ble_find_addr_filter_counter,
\* btm_ble_alloc_addr_filter_counter and btm_ble_dealloc_addr_filter_counter
\* read or write lies inside the max_filter entries allocated at init
\* (0 .. max_filter - 1), whatever max_filter > 0 and the address are.
C28_IndexesInsideTable ==
  last.op \in {"btm_ble_find_addr_filter_counter",
               "btm_ble_alloc_addr_filter_counter",
               "btm_ble_dealloc_addr_filter_counter"}
  => last.visited \subseteq 0 .. (cmn_ble_vsc_cb.max_filter - 1)

\* C29: starting from init, cur_filter_target is empty in every state the
\* public operations and the replies reach, so every acknowledged reply is
\* accounted in the generic entry 0: no step makes a per-address entry (index
\* 1 and above) in-use, and none raises a counter of a per-address entry.
C29_TargetStaysEmpty ==
  /\ [](cur_filter_target = EmptyAddr)
  /\ [][\A i \in PerAddress :
          /\ ~p_addr_filter_count[i].in_use => ~p_addr_filter_count'[i].in_use
          /\ \A t \in CondTypes :
               p_addr_filter_count'[i].pf_counter[t]
                 <= p_addr_filter_count[i].pf_counter[t]]_vars

\* a local-name filter was acknowledged and counted in entry 0, with the
\* target empty and no per-address entry in use
C29_Witness ==
  /\ last.op = "reply"
  /\ cur_filter_target = EmptyAddr
  /\ is_filtering_supported(cmn_ble_vsc_cb)
  /\ p_addr_filter_count[0].pf_counter[BTM_BLE_PF_LOCAL_NAME] = 1
  /\ \A i \in PerAddress : ~p_addr_filter_count[i].in_use

====
